---- MODULE Spec2Model ----
(***************************************************************************)
(* A model of the ML visualisation gallery: the self-hosted numeric        *)
(* routines (convex hull, K-Means, SOM grid relaxation) and the pages'     *)
(* state machines (backend fetches, simulation and animation effects).     *)
(*                                                                         *)
(* Numbers: JavaScript doubles are modelled by exact integer or rational   *)
(* arithmetic on small grids; rounding of doubles is not modelled.         *)
(***************************************************************************)
EXTENDS Integers, Sequences, FiniteSets, TLC

VARIABLES
    \* ---- computeConvexHull applied to one input (dbscan.tsx) ----
    hullIn,         \* the point list handed to computeConvexHull
    hullOut,        \* what it returned
    hullDone,       \* whether it has been called
    \* ---- the DBSCAN overlay, renderDBSCAN (dbscan.tsx) ----
    labeledPoints,  \* the state labeledPoints: points with their cluster label
    hullCalls,      \* the groups handed to computeConvexHull, in Map order
    drawnHulls,     \* the polygons filled and stroked
    rendered,       \* whether renderDBSCAN has drawn labeledPoints
    \* ---- the pages that fetch from the backend (dbscan, decision-tree, random-forest) ----
    page,           \* the mounted page: "dbscan", "tree", "forest", or "none"
    pageParams,     \* its params state (with the tree page's selectedDataset)
    dataGen,        \* dbscan: which generated clusterPoints the useMemo holds
    inflight,       \* the requests sent and not yet answered
    nextReq,        \* the number of the next request of this mount
    shown,          \* the result state drawn: labeledPoints / tree / forest
    lastArrival,    \* history: the response that arrived last, <<>> before any
    newestOk,       \* history: the latest request answered well-formed so far, 0 before any
    staleSeen,      \* history: pages on which an older request's result replaced a newer one's
    \* ---- KMeansVisualizer (plotlygraph.tsx, second component) ----
    config,         \* the state config: points, clusters, iterations
    initMode,       \* "random" or "kmeans++"
    version,        \* the state version
    data,           \* the state data: points, each with its cluster once committed
    centroids,      \* the state centroids
    pendingInit,    \* the initialising effect has queued setData/setCentroids, not yet rendered
    status,         \* the simulation effect: "idle", "running" (a frame is requested),
                    \* "done" (final state committed) or "crashed" (step threw)
    simPoints,      \* the running simulation's local points
    simCenters,     \* the running simulation's local centers
    simIter,        \* the running simulation's local iter
    usedCenters,    \* history: the centers the last step assigned the points to
    spreadStart,    \* history: the example scenario began with a centroid in each triangle's box
    \* ---- SOMPage (plotlygraph.tsx, first component) ----
    params,         \* the state params: gridSize, learningRate, iterations, sigma
    currentFrame,   \* the state currentFrame
    isAnimating,    \* the state isAnimating
    framePending,   \* an animation frame is requested and not cancelled
    fixedData,      \* the data set renderSOM closed over
    drawnGrid,      \* the grid the last renderSOM call drew
    \* ---- renderSOM's training loop, iteration by iteration ----
    loopGrid,       \* the local grid
    loopIter,       \* the local iter
    lastBMUIndex,   \* the bmuIndex the last iteration found, -1 before any
    lastBMUInputPoint, \* the local lastBMUInputPoint, <<>> for null
    searchedGrid,   \* history: the grid as the last iteration's search saw it
    \* ---- the neighbourhood influence of renderSOM, for two nodes of one iteration ----
    inflInput,      \* gridSize, sigma, iterations, iter, the BMU and the two nodes
    inflOutput,     \* the two influences, <<>> before they are computed
    \* ---- LogisticRegressionPage (part_001), with the fetching pages' variables ----
    error,          \* the state error: a message, or "null"
    \* ---- the requestAnimationFrame loops of PerceptronVisualizer, SOMPage and VisualizationCanvas ----
    animKind,       \* the component: "perceptron", "som", "canvas", or "none"
    animMounted,    \* the component is mounted
    animOn,         \* isAnimating (som, canvas) / isNetworkInitialized (perceptron)
    animInit,       \* perceptron: a call of initializeNetwork awaits its fetch
    animRef,        \* animRef / animationFrameRef / animationRef .current, 0 for none
    animQueue,      \* the callbacks requested and neither run nor cancelled: id and loop
    animLive,       \* the loop of the animation effect now in place, 0 when it started none
    animCleaned,    \* history: the loops whose effect was cleaned up
    animAwait,      \* perceptron: the loops whose step() awaits its fetch
    animIters,      \* perceptron: currentIterations of each loop
    animCount,      \* currentFrame (som) / internalFrame (canvas)
    animNextId,     \* the id the next requestAnimationFrame returns
    animIterations, \* perceptron: config.iterations
    animSent,       \* history: the /train requests each loop has sent
    animNet,        \* history: who wrote networkState last: "init" for initializeNetwork,
                    \* "live" for a step of the loop in place, "stale" for a step of a cleaned-up loop
    \* ---- KNNVisualizer (knn.tsx) ----
    knnConfig,      \* the state config: points, classes, k
    knnData,        \* the state data: points with their label
    testPoint,      \* the state testPoint, <<>> for null
    prediction,     \* the state prediction, -1 for null
    neighbors,      \* the state neighbors
    \* ---- initializeCentroids in kmeans++ mode, one while iteration at a time ----
    ppPoints,       \* the argument points
    ppClusters,     \* config.clusters
    ppCentroids,    \* the local centroids, <<>> before the first is drawn
    ppIters,        \* history: the iterations the while loop has made
    ppDone          \* the function has returned centroids

hullVars == <<hullIn, hullOut, hullDone>>

overlayVars == <<labeledPoints, hullCalls, drawnHulls, rendered>>

fetchVars == <<page, pageParams, dataGen, inflight, nextReq, shown,
               lastArrival, newestOk, staleSeen>>

kmVars == <<config, initMode, version, data, centroids, pendingInit, status, simPoints, simCenters, simIter,
            usedCenters, spreadStart>>

somVars == <<params, currentFrame, isAnimating, framePending, fixedData, drawnGrid>>

trainVars == <<loopGrid, loopIter, lastBMUIndex, lastBMUInputPoint, searchedGrid>>

\* The variables of the parts modelled after the pages above.
inflVars == <<inflInput, inflOutput>>

percVars == <<animIterations, animSent, animNet>>

animVars == <<animKind, animMounted, animOn, animInit, animRef, animQueue, animLive,
              animCleaned, animAwait, animIters, animCount, animNextId, percVars>>

knnVars == <<knnConfig, knnData, testPoint, prediction, neighbors>>

ppVars == <<ppPoints, ppClusters, ppCentroids, ppIters, ppDone>>

laterVars == <<trainVars, inflVars, error, animVars, knnVars, ppVars>>

vars == <<hullVars, overlayVars, fetchVars, kmVars, somVars, laterVars>>

(***************************************************************************)
(* Generic helpers.                                                        *)
(***************************************************************************)
Front(s) == SubSeq(s, 1, Len(s) - 1)

Last(s) == s[Len(s)]

(***************************************************************************)
(* computeConvexHull (monotone chain), dbscan.tsx 100-132.                 *)
(***************************************************************************)
\* Coordinates of the hull inputs.
HullCoords == {0, 1, 2}

\* Most points in one hull input.
MaxHullPts == 4

HullPoints == [x : HullCoords, y : HullCoords]

\* cross(o, a, b): > 0 when o -> a -> b turns left.
cross(o, a, b) == (a.x - o.x) * (b.y - o.y) - (a.y - o.y) * (b.x - o.x)

\* The comparator (a.x === b.x ? a.y - b.y : a.x - b.x) is negative.
PointBefore(a, b) == IF a.x = b.x THEN a.y < b.y ELSE a.x < b.x

RECURSIVE InsertSorted(_, _)
\* p inserted into a sorted list, after every element it does not precede
\* (Array.prototype.sort is stable).
InsertSorted(s, p) ==
    IF s = <<>> THEN <<p>>
    ELSE IF PointBefore(p, Last(s)) THEN Append(InsertSorted(Front(s), p), Last(s))
    ELSE Append(s, p)

RECURSIVE SortFrom(_, _, _)
SortFrom(points, i, acc) ==
    IF i > Len(points) THEN acc
    ELSE SortFrom(points, i + 1, InsertSorted(acc, points[i]))

\* A mutant of SortPoints: the points are left in input order.
SortPointsUnsorted(points) == points

\* points.map(p => ({x, y})).sort(by x, then y)
SortPoints(points) ==
    SortFrom([i \in 1..Len(points) |-> [x |-> points[i].x, y |-> points[i].y]], 1, <<>>)

RECURSIVE PopWhile(_, _)
\* while (chain.length >= 2 && cross(chain[-2], chain[-1], p) <= 0) chain.pop()
PopWhile(chain, p) ==
    IF Len(chain) >= 2 /\ cross(chain[Len(chain) - 1], chain[Len(chain)], p) <= 0
    THEN PopWhile(Front(chain), p)
    ELSE chain

RECURSIVE BuildChain(_, _, _)
\* One pass of the monotone chain over seq, from index i on.
BuildChain(seq, i, chain) ==
    IF i > Len(seq) THEN chain
    ELSE BuildChain(seq, i + 1, Append(PopWhile(chain, seq[i]), seq[i]))

Reverse(s) == [i \in 1..Len(s) |-> s[Len(s) + 1 - i]]

\* A mutant of computeConvexHull: the shortcut is taken below 2 points only.
computeConvexHullShortcut2(points) ==
    IF Len(points) < 2 THEN points
    ELSE LET sorted == SortPoints(points)
             lower == BuildChain(sorted, 1, <<>>)
             upper == BuildChain(Reverse(sorted), 1, <<>>)
         IN Front(lower) \o Front(upper)

computeConvexHull(points) ==
    IF Len(points) < 3 THEN points
    ELSE LET sorted == SortPoints(points)
             lower == BuildChain(sorted, 1, <<>>)
             upper == BuildChain(Reverse(sorted), 1, <<>>)
         IN Front(lower) \o Front(upper)

\* No hull input is under study.
HullIdle ==
    /\ hullIn = <<>>
    /\ hullOut = <<>>
    /\ hullDone = FALSE

\* The overlay is not under study.
OverlayIdle ==
    /\ labeledPoints = <<>>
    /\ hullCalls = <<>>
    /\ drawnHulls = <<>>
    /\ rendered = FALSE

\* No fetching page is mounted.
FetchIdle ==
    /\ page = "none"
    /\ pageParams = <<>>
    /\ dataGen = 0
    /\ inflight = {}
    /\ nextReq = 0
    /\ shown = <<>>
    /\ lastArrival = <<>>
    /\ newestOk = 0
    /\ staleSeen = {}

\* No K-Means page is mounted.
KMIdle ==
    /\ config = <<>>
    /\ initMode = "random"
    /\ version = 0
    /\ data = <<>>
    /\ centroids = <<>>
    /\ pendingInit = FALSE
    /\ status = "idle"
    /\ simPoints = <<>>
    /\ simCenters = <<>>
    /\ simIter = 0
    /\ usedCenters = <<>>
    /\ spreadStart = FALSE

\* No SOM page is mounted.
SOMIdle ==
    /\ params = <<>>
    /\ currentFrame = 0
    /\ isAnimating = FALSE
    /\ framePending = FALSE
    /\ fixedData = <<>>
    /\ drawnGrid = <<>>

\* renderSOM's training loop is not under study.
TrainIdle ==
    /\ loopGrid = <<>>
    /\ loopIter = 0
    /\ lastBMUIndex = -1
    /\ lastBMUInputPoint = <<>>
    /\ searchedGrid = <<>>

\* error: null
NoError == "null"

\* No pair of influences is under study.
InflIdle ==
    /\ inflInput = <<>>
    /\ inflOutput = <<>>

\* No animation loop is under study.
AnimIdle ==
    /\ animKind = "none"
    /\ animMounted = FALSE
    /\ animOn = FALSE
    /\ animInit = FALSE
    /\ animRef = 0
    /\ animQueue = {}
    /\ animLive = 0
    /\ animCleaned = {}
    /\ animAwait = {}
    /\ animIters = <<>>
    /\ animCount = 0
    /\ animNextId = 0
    /\ animIterations = 0
    /\ animSent = <<>>
    /\ animNet = <<>>

\* No KNN page is under study.
KnnIdle ==
    /\ knnConfig = <<>>
    /\ knnData = <<>>
    /\ testPoint = <<>>
    /\ prediction = -1
    /\ neighbors = <<>>

\* No call of initializeCentroids is under study.
PlusIdle ==
    /\ ppPoints = <<>>
    /\ ppClusters = 0
    /\ ppCentroids = <<>>
    /\ ppIters = 0
    /\ ppDone = FALSE

\* None of the later parts is under study.
LaterIdle == TrainIdle /\ InflIdle /\ error = NoError /\ AnimIdle /\ KnnIdle /\ PlusIdle

HullInit ==
    /\ \E n \in 0..MaxHullPts : hullIn \in [1..n -> HullPoints]
    /\ hullOut = <<>>
    /\ hullDone = FALSE
    /\ OverlayIdle
    /\ FetchIdle
    /\ KMIdle
    /\ SOMIdle
    /\ LaterIdle

\* The call computeConvexHull(points).
ComputeHull ==
    /\ ~hullDone
    /\ hullOut' = computeConvexHull(hullIn)
    /\ hullDone' = TRUE
    /\ UNCHANGED <<hullIn, overlayVars, fetchVars, kmVars, somVars, laterVars>>

HullNext == ComputeHull

HullSpec == HullInit /\ [][HullNext]_vars

\* Not all on one line: some three of the points turn.
NotAllCollinear(points) ==
    \E i, j, k \in 1..Len(points) : cross(points[i], points[j], points[k]) # 0

\* p is inside or on the boundary of the counter-clockwise polygon poly:
\* on no edge is p strictly to the right.
InsideOrOn(p, poly) ==
    \A k \in 1..Len(poly) : cross(poly[k], poly[(k % Len(poly)) + 1], p) >= 0

\* poly is a convex polygon in counter-clockwise order: every corner turns left.
ConvexCCW(poly) ==
    /\ Len(poly) >= 3
    /\ \A k \in 1..Len(poly) :
         cross(poly[k], poly[(k % Len(poly)) + 1], poly[((k + 1) % Len(poly)) + 1]) > 0

\* C2: for at least 3 points that are not all collinear, the returned polygon
\* is a convex polygon and every input point lies inside it or on its boundary.
HullContainsInput ==
    (hullDone /\ Len(hullIn) >= 3 /\ NotAllCollinear(hullIn)) =>
        /\ ConvexCCW(hullOut)
        /\ \A i \in 1..Len(hullIn) : InsideOrOn(hullIn[i], hullOut)

\* C2 witness: a hull was computed for 4 points of which one is strictly
\* inside the triangle of the others and so is no vertex of the result.
HullContainsInputWitness ==
    /\ hullDone
    /\ Len(hullIn) = 4
    /\ NotAllCollinear(hullIn)
    /\ Len(hullOut) = 3
    /\ \E i \in 1..4 : \A k \in 1..3 : cross(hullOut[k], hullOut[(k % 3) + 1], hullIn[i]) > 0

\* C9: for fewer than 3 points the result is the input list itself, same
\* points in the same order.
HullSmallInputUnchanged ==
    (hullDone /\ Len(hullIn) < 3) => hullOut = hullIn

\* C9 witness: two points given in descending order came back in that order.
HullSmallInputWitness ==
    /\ hullDone
    /\ Len(hullIn) = 2
    /\ PointBefore(hullIn[2], hullIn[1])
    /\ hullOut = hullIn

(***************************************************************************)
(* The DBSCAN overlay: renderDBSCAN groups the labeled points by cluster   *)
(* and draws each group's convex hull, dbscan.tsx 178-204.                 *)
(***************************************************************************)
\* The label of a noise point.
NoiseLabel == -1

\* Most labeled points in one overlay input.
MaxLabeled == 4

\* Coordinates and cluster ids of the overlay inputs.
OverlayCoords == {0, 1}

ClusterIds == {0, 1}

LabeledPointSet == [x : OverlayCoords, y : OverlayCoords, cluster : ClusterIds \cup {NoiseLabel}]

\* A mutant of InCluster: noise points are grouped like any other.
InClusterAlways(pt) == TRUE

\* if (pt.cluster !== -1)
InCluster(pt) == pt.cluster # NoiseLabel

\* The index of cluster id among the Map's entries, 0 when it has none.
EntryOf(clusters, id) ==
    IF \E k \in 1..Len(clusters) : clusters[k].id = id
    THEN CHOOSE k \in 1..Len(clusters) : clusters[k].id = id
    ELSE 0

RECURSIVE GroupFrom(_, _, _)
\* for (const pt of labeledPoints) { if (...) { clusters.get-or-create(pt.cluster).push(pt) } }
\* The Map keeps its keys in insertion order.
GroupFrom(pts, i, clusters) ==
    IF i > Len(pts) THEN clusters
    ELSE LET pt == pts[i]
             k == EntryOf(clusters, pt.cluster)
         IN IF ~InCluster(pt) THEN GroupFrom(pts, i + 1, clusters)
            ELSE IF k = 0
            THEN GroupFrom(pts, i + 1, Append(clusters, [id |-> pt.cluster, points |-> <<pt>>]))
            ELSE GroupFrom(pts, i + 1,
                           [clusters EXCEPT ![k].points = Append(clusters[k].points, pt)])

GroupByCluster(pts) == GroupFrom(pts, 1, <<>>)

\* clusters.forEach: the hull of every group
HullsOf(clusters) ==
    [k \in 1..Len(clusters) |->
        [id |-> clusters[k].id,
         points |-> clusters[k].points,
         hull |-> computeConvexHull(clusters[k].points)]]

RECURSIVE SelectDrawn(_, _, _)
\* if (hull.length < 3) return; otherwise the polygon is drawn
SelectDrawn(calls, i, acc) ==
    IF i > Len(calls) THEN acc
    ELSE SelectDrawn(calls, i + 1,
                     IF Len(calls[i].hull) < 3 THEN acc
                     ELSE Append(acc, [id |-> calls[i].id, hull |-> calls[i].hull]))

OverlayInit ==
    /\ \E n \in 0..MaxLabeled : labeledPoints \in [1..n -> LabeledPointSet]
    /\ hullCalls = <<>>
    /\ drawnHulls = <<>>
    /\ rendered = FALSE
    /\ HullIdle
    /\ FetchIdle
    /\ KMIdle
    /\ SOMIdle
    /\ LaterIdle

\* renderDBSCAN draws the current labeledPoints.
RenderDBSCAN ==
    /\ ~rendered
    /\ hullCalls' = HullsOf(GroupByCluster(labeledPoints))
    /\ drawnHulls' = SelectDrawn(hullCalls', 1, <<>>)
    /\ rendered' = TRUE
    /\ UNCHANGED <<labeledPoints, hullVars, fetchVars, kmVars, somVars, laterVars>>

OverlayNext == RenderDBSCAN

OverlaySpec == OverlayInit /\ [][OverlayNext]_vars

\* The coordinates of the points of a group.
CoordsOf(points) == {[x |-> points[i].x, y |-> points[i].y] : i \in 1..Len(points)}

\* C3: no group handed to computeConvexHull holds a point labeled -1, and
\* every vertex of a drawn hull is a point of its own (noise-free) group.
NoiseNotInHulls ==
    rendered =>
        /\ \A k \in 1..Len(hullCalls) :
             /\ hullCalls[k].id # NoiseLabel
             /\ \A i \in 1..Len(hullCalls[k].points) :
                  hullCalls[k].points[i].cluster # NoiseLabel
        /\ \A d \in 1..Len(drawnHulls) :
             \E k \in 1..Len(hullCalls) :
                /\ hullCalls[k].id = drawnHulls[d].id
                /\ \A v \in 1..Len(drawnHulls[d].hull) :
                     drawnHulls[d].hull[v] \in CoordsOf(hullCalls[k].points)

\* C3 witness: a hull was drawn for a cluster while a noise point lying
\* elsewhere was among the labeled points.
NoiseNotInHullsWitness ==
    /\ rendered
    /\ Len(drawnHulls) = 1
    /\ \E i \in 1..Len(labeledPoints) :
         /\ labeledPoints[i].cluster = NoiseLabel
         /\ [x |-> labeledPoints[i].x, y |-> labeledPoints[i].y]
              \notin CoordsOf(hullCalls[1].points)

(***************************************************************************)
(* Backend fetches: the effects of the DBSCAN, decision-tree and           *)
(* random-forest pages send a request whenever their dependencies change   *)
(* and apply each response when it arrives.                                *)
(***************************************************************************)
\* Most requests one mounted page sends.
MaxRequests == 3

Pages == {"dbscan", "tree", "forest"}

\* The controls of each page and the values tried for each. epsilon is in
\* hundredths. One slider stands for the page's other numeric sliders, which
\* the code handles alike.
Controls(p) ==
    CASE p = "dbscan" -> [epsilon |-> {20, 25}, minPoints |-> {5, 6}, numClusters |-> {3, 4}]
      [] p = "tree"   -> [dataset |-> {"iris", "wine"}, maxDepth |-> {3, 4},
                          criterion |-> {"gini", "entropy", "gain_ratio"}]
      [] p = "forest" -> [dataset |-> {"iris", "wine"}, numberOfTrees |-> {10, 11},
                          criterion |-> {"gini", "entropy"}]

\* useState's initial values.
Defaults(p) ==
    CASE p = "dbscan" -> [epsilon |-> 20, minPoints |-> 5, numClusters |-> 3]
      [] p = "tree"   -> [dataset |-> "iris", maxDepth |-> 3, criterion |-> "gini"]
      [] p = "forest" -> [dataset |-> "iris", numberOfTrees |-> 10, criterion |-> "gini"]

\* What the Reset button sets.
ResetParams(p, cur) ==
    CASE p = "dbscan" -> [epsilon |-> 20, minPoints |-> 5, numClusters |-> 3]
      [] p = "tree"   -> [cur EXCEPT !.maxDepth = 3, !.criterion = "Gini"]
      [] p = "forest" -> [dataset |-> cur.dataset, numberOfTrees |-> 10, criterion |-> "gini"]

\* The result state before any response.
InitialShown(p) == IF p = "tree" THEN [kind |-> "null"] ELSE [kind |-> "empty"]

\* A mutant of DataGenAfter: the useMemo depends on the whole params object.
DataGenAfterAnyChange(p, old, new, gen) ==
    IF p = "dbscan" /\ old # new THEN gen + 1 ELSE gen

\* clusterPoints is regenerated only when numClusters changes (useMemo).
DataGenAfter(p, old, new, gen) ==
    IF p = "dbscan" /\ old.numClusters # new.numClusters THEN gen + 1 ELSE gen

\* Whether the fetching effect runs again after params went from old to new:
\* dbscan depends on epsilon, minPoints and clusterPoints by value, the other
\* two on the params object, which every setParams replaces.
EffectRuns(p, old, new) ==
    IF p = "dbscan"
    THEN old.epsilon # new.epsilon \/ old.minPoints # new.minPoints
            \/ old.numClusters # new.numClusters
    ELSE TRUE

TOTAL_POINTS == 200

\* Math.floor(TOTAL_POINTS * NOISE_RATIO), NOISE_RATIO being 0.1
NoiseCount == TOTAL_POINTS \div 10

\* Math.floor(TOTAL_POINTS * (1 - NOISE_RATIO))
ClusterPointCount == (TOTAL_POINTS * 9) \div 10

\* allPoints.length: generateClusterData gives each cluster
\* Math.floor(clusterPointCount / numClusters) points.
AllPointsLength(numClusters) == numClusters * (ClusterPointCount \div numClusters) + NoiseCount

\* The request the effect sends: its number and the body built from the
\* state of that render. dbscan sends clusterPoints plus fresh noise points.
Request(p, id, prm, gen) ==
    [id |-> id,
     body |-> IF p = "dbscan"
              THEN [points |-> [clusters |-> gen, noise |-> id,
                                length |-> AllPointsLength(prm.numClusters)],
                    epsilon |-> prm.epsilon, minPoints |-> prm.minPoints]
              ELSE prm]

\* What a backend computes for a request.
ResultOf(r) == [kind |-> "result", req |-> r.id, body |-> r.body]

Outcomes == {"ok", "nonok", "malformed", "rejected"}

\* The outcomes of a request of page p. A 2xx response to /dbscan may also
\* carry a labels array of another length than the points sent.
OutcomesOf(p) == IF p = "dbscan" THEN Outcomes \cup {"wronglength"} ELSE Outcomes

\* No labels field in the response.
NoLabels == -1

\* data.labels.length of the response to the /dbscan request r, NoLabels
\* when data.labels is absent.
LabelsLength(r, outcome) ==
    CASE outcome = "ok" -> r.body.points.length
      [] outcome = "wronglength" -> r.body.points.length - 1
      [] OTHER -> NoLabels

\* A mutant of LabelsAccepted: the length is not compared.
LabelsAcceptedAnyLength(r, outcome) == LabelsLength(r, outcome) # NoLabels

\* Not (!data.labels || data.labels.length !== allPoints.length)
LabelsAccepted(r, outcome) ==
    ~(LabelsLength(r, outcome) = NoLabels \/ LabelsLength(r, outcome) # r.body.points.length)

\* A mutant of AfterResponse: a response is applied only when it answers the
\* latest request.
AfterResponseLatestOnly(p, cur, r, outcome, latest) ==
    IF outcome = "ok" /\ r.id = latest THEN ResultOf(r) ELSE cur

\* A mutant of AfterResponse: the body of an error response is taken for
\* the result.
AfterResponseTakesErrorBody(p, cur, r, outcome, latest) ==
    IF outcome \in {"ok", "nonok"} THEN ResultOf(r) ELSE cur

\* The result state after request r was answered with outcome:
\*   ok         a well-formed 2xx response
\*   nonok      an error status with a JSON body
\*   malformed  a 2xx response lacking labels / tree / trees
\*   wronglength  a 2xx response whose labels are fewer than the points sent
\*   rejected   fetch or res.json() threw
\* latest, the number of the latest request sent, is not consulted.
AfterResponse(p, cur, r, outcome, latest) ==
    CASE p = "dbscan" -> IF outcome \in {"rejected", "nonok"} THEN cur
                         ELSE IF LabelsAccepted(r, outcome) THEN ResultOf(r) ELSE cur
      [] p = "tree"   -> IF outcome = "ok" THEN ResultOf(r)
                         ELSE IF outcome = "rejected" THEN cur
                         ELSE [kind |-> "undefined"]
      [] p = "forest" -> IF outcome = "ok" THEN ResultOf(r)
                         ELSE IF outcome = "malformed" THEN [kind |-> "empty"]
                         ELSE cur

\* Mounting page p: its state is initialised and its effect sends request 1.
Mounted(p) ==
    /\ page' = p
    /\ pageParams' = Defaults(p)
    /\ dataGen' = 1
    /\ inflight' = {Request(p, 1, Defaults(p), 1)}
    /\ nextReq' = 2
    /\ shown' = InitialShown(p)
    /\ lastArrival' = <<>>
    /\ newestOk' = 0

FetchInit ==
    /\ \E p \in Pages :
         /\ page = p
         /\ pageParams = Defaults(p)
         /\ dataGen = 1
         /\ inflight = {Request(p, 1, Defaults(p), 1)}
         /\ nextReq = 2
         /\ shown = InitialShown(p)
    /\ lastArrival = <<>>
    /\ newestOk = 0
    /\ staleSeen = {}
    /\ HullIdle
    /\ OverlayIdle
    /\ KMIdle
    /\ SOMIdle
    /\ LaterIdle

\* setParams(new) and the effects of the render that follows.
SetParams(new) ==
    /\ pageParams' = new
    /\ dataGen' = DataGenAfter(page, pageParams, new, dataGen)
    /\ IF EffectRuns(page, pageParams, new)
       THEN /\ nextReq <= MaxRequests
            /\ inflight' = inflight \cup {Request(page, nextReq, new, dataGen')}
            /\ nextReq' = nextReq + 1
       ELSE UNCHANGED <<inflight, nextReq>>
    /\ UNCHANGED <<page, shown, lastArrival, newestOk, staleSeen, hullVars, overlayVars, kmVars, somVars, laterVars>>

\* The user moves a slider or picks an option.
ChangeControl ==
    \E f \in DOMAIN Controls(page) : \E v \in Controls(page)[f] :
        /\ v # pageParams[f]
        /\ SetParams([pageParams EXCEPT ![f] = v])

\* The user clicks Reset.
ResetControls == SetParams(ResetParams(page, pageParams))

\* The response to an in-flight request arrives, in any order.
Respond ==
    \E r \in inflight : \E outcome \in OutcomesOf(page) :
        /\ inflight' = inflight \ {r}
        /\ shown' = AfterResponse(page, shown, r, outcome, nextReq - 1)
        /\ lastArrival' = [req |-> r.id, outcome |-> outcome]
        /\ newestOk' = IF outcome = "ok" /\ r.id > newestOk THEN r.id ELSE newestOk
        /\ staleSeen' = IF /\ shown'.kind = "result"
                           /\ shown'.req = r.id
                           /\ newestOk > r.id
                        THEN staleSeen \cup {page} ELSE staleSeen
        /\ UNCHANGED <<page, pageParams, dataGen, nextReq, hullVars, overlayVars, kmVars, somVars, laterVars>>

\* The user leaves for another algorithm's page: the old component is
\* unmounted (its late responses set no state) and the new one mounted.
Navigate ==
    \E p \in Pages \ {page} :
        /\ Mounted(p)
        /\ UNCHANGED <<staleSeen, hullVars, overlayVars, kmVars, somVars, laterVars>>

FetchNext == ChangeControl \/ ResetControls \/ Respond \/ Navigate

FetchSpec == FetchInit /\ [][FetchNext]_vars

\* C20: the generated cluster points change only when numClusters changes:
\* a step of the DBSCAN page that leaves numClusters as it was (an epsilon or
\* minPoints change, a Reset at the default numClusters, a response) keeps
\* clusterPoints, and a request it sends carries those same cluster points.
ClusterPointsStable ==
    [][(/\ page = "dbscan"
        /\ page' = "dbscan"
        /\ pageParams'.numClusters = pageParams.numClusters)
       => (/\ dataGen' = dataGen
           /\ \A r \in inflight' \ inflight : r.body.points.clusters = dataGen)]_vars

\* C20 witness: two requests in flight, sent with different epsilon or
\* minPoints and different noise, that carry the same cluster points.
SameClusterPointsSentAgain ==
    /\ page = "dbscan"
    /\ \E r1, r2 \in inflight :
          /\ r1.id < r2.id
          /\ (r1.body.epsilon # r2.body.epsilon \/ r1.body.minPoints # r2.body.minPoints)
          /\ r1.body.points.noise # r2.body.points.noise
          /\ r1.body.points.clusters = r2.body.points.clusters
          /\ r2.body.points.clusters = dataGen

\* C27: after any sequence of control changes including Reset, every
\* build_tree request carries a criterion that is one of the values the
\* Criterion control offers (gini, entropy, gain_ratio).
TreeCriterionOffered ==
    page = "tree" =>
        \A r \in inflight : r.body.criterion \in Controls("tree").criterion

\* The body the effect would send for the current state.
CurrentBody == Request(page, 0, pageParams, dataGen).body

\* C1: there is no ordering guard: whenever the response that arrived last
\* was well-formed, its result is the one shown, also when the request it
\* answers is older than one whose result was shown before it.
OkResponseAlwaysApplied ==
    (lastArrival # <<>> /\ lastArrival.outcome = "ok") =>
        /\ shown.kind = "result"
        /\ shown.req = lastArrival.req

StaleResultShown ==
    /\ staleSeen = Pages
    /\ inflight = {}
    /\ shown.kind = "result"
    /\ shown.req < nextReq - 1
    /\ newestOk = nextReq - 1
    /\ \/ page # "dbscan" /\ shown.body # CurrentBody
       \/ page = "dbscan" /\ \/ shown.body.epsilon # pageParams.epsilon
                             \/ shown.body.minPoints # pageParams.minPoints
                             \/ shown.body.points.clusters # dataGen

\* ======================================================================
\* KMeansVisualizer: the K-Means page.
\*
\* A coordinate is an exact number.  A data point has integer coordinates;
\* a centroid is [x, y, n] and stands at (x / n, y / n), in lowest terms, so
\* that a mean is exact and equal positions are equal records.
\* ======================================================================

\* Most changes of a slider or of the mode: the cap of version.
MaxVersion == 2

InitialClusters == 1

KMIterations == 10

SampleOffset == 10

SampleWidth == 780

SampleHeight == 580

\* cluster: undefined
Unassigned == -1

\* The values Math.random() takes here, numerator and denominator.
RandomFractions == {<<0, 2>>, <<1, 2>>}

\* The points slider's range, scaled down to one position.
PointCounts == {2}

\* The clusters slider's range, cut short.
ClusterCounts == {1, 2}

\* The initial config.points, on the model's scale.
InitialPoints == CHOOSE n \in PointCounts : TRUE

InitModes == {"random", "kmeans++"}

\* Math.random() * 780 + 10
RandomX == {(f[1] * SampleWidth) \div f[2] + SampleOffset : f \in RandomFractions}

\* Math.random() * 580 + 10
RandomY == {(f[1] * SampleHeight) \div f[2] + SampleOffset : f \in RandomFractions}

RandomCentroids == {[x |-> a, y |-> b, n |-> 1] : a \in RandomX, b \in RandomY}

Abs(a) == IF a < 0 THEN -a ELSE a

RECURSIVE GCD(_, _)
GCD(a, b) == IF b = 0 THEN a ELSE GCD(b, a % b)

\* A mutant of Quotient: the sums are divided by one more than the count.
QuotientOffByOne(sx, sy, cnt) ==
    LET g == GCD(GCD(Abs(sx), Abs(sy)), cnt + 1)
    IN [x |-> sx \div g, y |-> sy \div g, n |-> (cnt + 1) \div g]

\* The position (sx / cnt, sy / cnt) in lowest terms.
Quotient(sx, sy, cnt) ==
    LET g == GCD(GCD(Abs(sx), Abs(sy)), cnt)
    IN [x |-> sx \div g, y |-> sy \div g, n |-> cnt \div g]

\* A data point taken as a centroid.
AsCentroid(p) == [x |-> p.x, y |-> p.y, n |-> 1]

\* The outcomes of generateRandomPoints().
generateRandomPoints(count) ==
    [1..count -> {[x |-> a, y |-> b, cluster |-> Unassigned] : a \in RandomX, b \in RandomY}]

\* The squared distance of point a to centroid b, as a fraction.
euclideanDistance(a, b) ==
    [num |-> (a.x * b.n - b.x) * (a.x * b.n - b.x) + (a.y * b.n - b.y) * (a.y * b.n - b.y),
     den |-> b.n * b.n]

Infinity == [num |-> 1, den |-> 0]

\* A mutant of DistLess: dist <= minDist, a tie goes to the later centroid.
DistLessOrEqual(dist, minDist) == dist.num * minDist.den <= minDist.num * dist.den

\* dist < minDist
DistLess(dist, minDist) == dist.num * minDist.den < minDist.num * dist.den

\* centers.forEach((c, i) => { if (dist < minDist) { minDist = dist; cluster = i } })
RECURSIVE NearestFrom(_, _, _, _, _)
NearestFrom(p, centers, i, cluster, minDist) ==
    IF i >= Len(centers) THEN cluster
    ELSE LET dist == euclideanDistance(p, centers[i + 1])
         IN IF DistLess(dist, minDist)
            THEN NearestFrom(p, centers, i + 1, i, dist)
            ELSE NearestFrom(p, centers, i + 1, cluster, minDist)

\* The assignment phase of step.
Assign(pts, centers) ==
    [i \in 1..Len(pts) |-> [pts[i] EXCEPT !.cluster = NearestFrom(pts[i], centers, 0, 0, Infinity)]]

\* sums[cluster] is undefined for some point: sums[cluster].x throws.
Throws(assigned, clusters) ==
    \E i \in 1..Len(assigned) : assigned[i].cluster >= clusters

\* points.forEach(p => { sums[cluster].x += p.x; sums[cluster].y += p.y; sums[cluster].count++ })
RECURSIVE SumsFrom(_, _, _)
SumsFrom(assigned, i, sums) ==
    IF i > Len(assigned) THEN sums
    ELSE LET p == assigned[i]
             s == sums[p.cluster]
         IN SumsFrom(assigned, i + 1,
                     [sums EXCEPT ![p.cluster] =
                         [x |-> s.x + p.x, y |-> s.y + p.y, count |-> s.count + 1]])

Sums(assigned, clusters) ==
    SumsFrom(assigned, 1, [k \in 0..(clusters - 1) |-> [x |-> 0, y |-> 0, count |-> 0]])

\* A mutant of NewCenter: an empty cluster divides by its count.
NewCenterDividing(s, rnd) ==
    IF s.count > 0 THEN Quotient(s.x, s.y, s.count) ELSE [x |-> 0, y |-> 0, n |-> 0]

\* s.count ? s.x / s.count : Math.random() * 780 + 10, and y alike
NewCenter(s, rnd) ==
    IF s.count > 0 THEN Quotient(s.x, s.y, s.count) ELSE rnd

\* The outcomes of centers = sums.map(...), one per draw of the random numbers.
NewCenters(sums, clusters) ==
    {[k \in 1..clusters |-> NewCenter(sums[k - 1], rnd[k])] : rnd \in [1..clusters -> RandomCentroids]}

\* Math.min(...centroids.map(c => euclideanDistance(p, c))), an integer here.
RECURSIVE MinDistance(_, _, _)
MinDistance(p, cs, i) ==
    LET d == euclideanDistance(p, AsCentroid(cs[i])).num
    IN IF i = Len(cs) THEN d
       ELSE LET rest == MinDistance(p, cs, i + 1) IN IF d < rest THEN d ELSE rest

RECURSIVE SumUpTo(_, _)
SumUpTo(distances, i) == IF i = 0 THEN 0 ELSE SumUpTo(distances, i - 1) + distances[i]

\* A changed AccReached: acc > r.
AccReachedStrictly(acc, sum, f) == acc * f[2] > f[1] * sum

\* acc >= r, where r = Math.random() * sum.
AccReached(acc, sum, f) == acc * f[2] >= f[1] * sum

\* The first i with acc >= r, 0 when the for loop ends without one.
PickByWeight(distances, f) ==
    LET sum == SumUpTo(distances, Len(distances))
        hit == {i \in 1..Len(distances) : AccReached(SumUpTo(distances, i), sum, f)}
    IN IF hit = {} THEN 0 ELSE CHOOSE i \in hit : \A j \in hit : i <= j

\* The while loop of the kmeans++ branch: its outcomes from the centroids cs.
RECURSIVE PlusPlusFrom(_, _, _)
PlusPlusFrom(pts, cs, clusters) ==
    IF Len(cs) >= clusters THEN {cs}
    ELSE LET distances == [i \in 1..Len(pts) |-> MinDistance(pts[i], cs, 1)]
         IN UNION {PlusPlusFrom(pts, Append(cs, pts[PickByWeight(distances, f)]), clusters) :
                      f \in RandomFractions}

\* The outcomes of initializeCentroids(points).
initializeCentroids(pts, clusters, mode) ==
    IF mode = "random"
    THEN [1..clusters -> RandomCentroids]
    ELSE LET chosen == UNION {PlusPlusFrom(pts, <<pts[(f[1] * Len(pts)) \div f[2] + 1]>>, clusters) :
                                 f \in RandomFractions}
         IN {[k \in 1..Len(cs) |-> AsCentroid(cs[k])] : cs \in chosen}

\* One call of step() on the local points pts, centers and iter it, under
\* the configuration cfg the effect closed over; d and c are the states data
\* and centroids unless this call commits.
Step(pts, centers, it, d, c, cfg) ==
    LET assigned == Assign(pts, centers)
    IN /\ simPoints' = assigned
       /\ usedCenters' = centers
       /\ IF Throws(assigned, cfg.clusters)
          THEN /\ status' = "crashed"
               /\ simCenters' = centers
               /\ simIter' = it
               /\ data' = d
               /\ centroids' = c
          ELSE \E nc \in NewCenters(Sums(assigned, cfg.clusters), cfg.clusters) :
                  /\ simCenters' = nc
                  /\ simIter' = it + 1
                  /\ IF it + 1 < cfg.iterations
                     THEN /\ status' = "running"
                          /\ data' = d
                          /\ centroids' = c
                     ELSE /\ status' = "done"
                          /\ data' = assigned
                          /\ centroids' = nc

\* The simulation effect's body for the render with data d, centroids c and
\* configuration cfg: nothing for an empty list, else the first step().
RunEffect(d, c, cfg) ==
    IF Len(d) = 0 \/ Len(c) = 0
    THEN /\ status' = "idle"
         /\ data' = d
         /\ centroids' = c
         /\ UNCHANGED <<simPoints, simCenters, simIter, usedCenters>>
    ELSE Step(d, c, 0, d, c, cfg)

\* The page after its first render: no data, the initialising effect has
\* queued its data and centroids, the simulation effect returned at once.
KMInit ==
    /\ config = [points |-> InitialPoints, clusters |-> InitialClusters, iterations |-> KMIterations]
    /\ initMode = "random"
    /\ version = 0
    /\ data = <<>>
    /\ centroids = <<>>
    /\ pendingInit = TRUE
    /\ status = "idle"
    /\ simPoints = <<>>
    /\ simCenters = <<>>
    /\ simIter = 0
    /\ usedCenters = <<>>
    /\ spreadStart = FALSE
    /\ HullIdle
    /\ OverlayIdle
    /\ FetchIdle
    /\ SOMIdle
    /\ LaterIdle

\* The render that takes up the initialising effect's setData and
\* setCentroids; the simulation effect is torn down and runs anew.
Refresh ==
    /\ pendingInit
    /\ status # "crashed"
    /\ \E newData \in generateRandomPoints(config.points) :
          \E newCentroids \in initializeCentroids(newData, config.clusters, initMode) :
             RunEffect(newData, newCentroids, config)
    /\ pendingInit' = FALSE
    /\ UNCHANGED <<config, initMode, version, spreadStart, hullVars, overlayVars, fetchVars, somVars, laterVars>>

\* The requested animation frame: step() again.
Frame ==
    /\ status = "running"
    /\ ~pendingInit
    /\ Step(simPoints, simCenters, simIter, data, centroids, config)
    /\ UNCHANGED <<config, initMode, version, pendingInit, spreadStart, hullVars, overlayVars, fetchVars, somVars, laterVars>>

\* The render after the final setData and setCentroids: data and centroids
\* are new objects, so the simulation effect runs again.
Restart ==
    /\ status = "done"
    /\ ~pendingInit
    /\ RunEffect(data, centroids, config)
    /\ UNCHANGED <<config, initMode, version, pendingInit, spreadStart, hullVars, overlayVars, fetchVars, somVars, laterVars>>

\* The render after a handler changed the configuration to cfg or the mode
\* to mode: the simulation effect is torn down and runs with this render's
\* data and centroids; the initialising effect queues new ones.
Rerender(cfg, mode) ==
    /\ ~pendingInit
    /\ status # "crashed"
    /\ version < MaxVersion
    /\ version' = version + 1
    /\ config' = cfg
    /\ initMode' = mode
    /\ RunEffect(data, centroids, cfg)
    /\ pendingInit' = TRUE
    /\ UNCHANGED <<spreadStart, hullVars, overlayVars, fetchVars, somVars, laterVars>>

SliderRange(key) == IF key = "points" THEN PointCounts ELSE ClusterCounts

handleSliderChange(key, value) ==
    /\ value # config[key]
    /\ Rerender([config EXCEPT ![key] = value], initMode)

\* The select's onChange.
ChangeInitMode(mode) ==
    /\ mode # initMode
    /\ Rerender(config, mode)

KMNext ==
    \/ Refresh
    \/ Frame
    \/ Restart
    \/ \E key \in {"points", "clusters"} : \E value \in SliderRange(key) :
          handleSliderChange(key, value)
    \/ \E mode \in InitModes : ChangeInitMode(mode)

KMSpec == KMInit /\ [][KMNext]_vars

\* C22: in every simulation step each point's assigned cluster index is a
\* valid index of the accumulator array sums: 0 <= index < config.clusters,
\* also in the step that runs right after the clusters slider was lowered.
ClusterIndexWithinSums ==
    usedCenters # <<>> =>
        \A i \in 1..Len(simPoints) :
            0 <= simPoints[i].cluster /\ simPoints[i].cluster < config.clusters

\* C23: after a run committed its final points and centroids, no further
\* step runs until the user changes a slider or the initialization mode.
QuietAfterCommit ==
    [][(/\ status = "done"
        /\ ~pendingInit
        /\ config' = config
        /\ initMode' = initMode
        /\ version' = version)
       => UNCHANGED <<status, simPoints, simCenters, simIter>>]_vars

\* The points the last step assigned to cluster index k.
Members(k) == {i \in 1..Len(simPoints) : simPoints[i].cluster = k}

RECURSIVE SumXOf(_)
SumXOf(S) == IF S = {} THEN 0 ELSE LET i == CHOOSE j \in S : TRUE IN simPoints[i].x + SumXOf(S \ {i})

RECURSIVE SumYOf(_)
SumYOf(S) == IF S = {} THEN 0 ELSE LET i == CHOOSE j \in S : TRUE IN simPoints[i].y + SumYOf(S \ {i})

\* Some call of step() has been made on the current locals.
Stepped == usedCenters # <<>>

\* Centroid c stands at the mean of the points with indices S.
IsMeanOf(c, S) ==
    /\ c.n > 0
    /\ c.x * Cardinality(S) = SumXOf(S) * c.n
    /\ c.y * Cardinality(S) = SumYOf(S) * c.n

\* C4: after every step, each cluster index that received N >= 1 points in
\* the step's assignment has its new centroid at the arithmetic mean of
\* exactly those N points.
CentroidIsMeanOfAssigned ==
    Stepped =>
        \A k \in 0..(Len(usedCenters) - 1) :
            Members(k) # {} =>
                /\ k < Len(simCenters)
                /\ IsMeanOf(simCenters[k + 1], Members(k))

\* The same for the steps that did not throw.
CentroidIsMeanUnlessThrown ==
    (Stepped /\ status # "crashed") =>
        \A k \in 0..(Len(usedCenters) - 1) :
            Members(k) # {} =>
                /\ k < Len(simCenters)
                /\ IsMeanOf(simCenters[k + 1], Members(k))

\* Centroid c is a number pair inside the sampling bounds.
InSamplingBounds(c) ==
    /\ c.n > 0
    /\ c.x >= SampleOffset * c.n
    /\ c.x < (SampleOffset + SampleWidth) * c.n
    /\ c.y >= SampleOffset * c.n
    /\ c.y < (SampleOffset + SampleHeight) * c.n

NotFarther(p, c, d) ==
    ((p.x * c.n - c.x) * (p.x * c.n - c.x) + (p.y * c.n - c.y) * (p.y * c.n - c.y)) * d.n * d.n
        <= ((p.x * d.n - d.x) * (p.x * d.n - d.x) + (p.y * d.n - d.y) * (p.y * d.n - d.y)) * c.n * c.n

\* C6: after every step each point's cluster is a centroid at minimal
\* squared distance among all the centroids the step started from, and the
\* lowest index among those at that distance.
AssignedToNearestLowestIndex ==
    Stepped =>
        \A i \in 1..Len(simPoints) :
            LET k == simPoints[i].cluster
            IN /\ k \in 0..(Len(usedCenters) - 1)
               /\ \A j \in 0..(Len(usedCenters) - 1) :
                     /\ NotFarther(simPoints[i], usedCenters[k + 1], usedCenters[j + 1])
                     /\ j < k => ~NotFarther(simPoints[i], usedCenters[j + 1], usedCenters[k + 1])

\* C6 witness: a point had two centroids at the same minimal distance, both
\* nearer than a third place a point could be, and went to the first.
TieGoesToLowestIndex ==
    /\ Stepped
    /\ \E i \in 1..Len(simPoints) :
          /\ simPoints[i].cluster = 0
          /\ Len(usedCenters) = 2
          /\ usedCenters[1].x # simPoints[i].x * usedCenters[1].n
          /\ NotFarther(simPoints[i], usedCenters[1], usedCenters[2])
          /\ NotFarther(simPoints[i], usedCenters[2], usedCenters[1])

\* C7: a run that has stopped requesting frames has made exactly
\* config.iterations steps and has committed its points and centers.
RunEndsAfterAllIterations ==
    (Stepped /\ status # "running") =>
        /\ simIter = config.iterations
        /\ data = simPoints
        /\ centroids = simCenters

\* The same for the runs that did not throw, with the count of a run that
\* still requests frames.
RunLengthUnlessThrown ==
    /\ status = "done" => /\ simIter = config.iterations
                          /\ data = simPoints
                          /\ centroids = simCenters
    /\ status = "running" => simIter \in 1..(config.iterations - 1)

\* A run went on after a step that left every centroid where it was, and
\* committed after config.iterations steps.
RanOnAfterConvergence ==
    /\ status = "done"
    /\ simIter = config.iterations
    /\ usedCenters = simCenters

\* ----------------------------------------------------------------------
\* The example scenario: 3 centroids and 9 points in 3 tight triangles.
\* ----------------------------------------------------------------------

\* The places the triangles are around.
TriangleCentres == <<[x |-> 0, y |-> 0], [x |-> 10, y |-> 10], [x |-> -10, y |-> 10]>>

\* A triangle's corners, from the place it is around.
TriangleOffsets == <<[x |-> 0, y |-> 1], [x |-> -1, y |-> -1], [x |-> 1, y |-> -1]>>

Triangle(t) ==
    [j \in 1..Len(TriangleOffsets) |->
        [x |-> TriangleCentres[t].x + TriangleOffsets[j].x,
         y |-> TriangleCentres[t].y + TriangleOffsets[j].y,
         cluster |-> Unassigned]]

\* The 9 points, triangle after triangle.
ScenarioData == Triangle(1) \o Triangle(2) \o Triangle(3)

\* The scenario before its centroids are placed: the page's state with the
\* 9 points as its data and 3 clusters.
ScenarioInit ==
    /\ data = ScenarioData
    /\ config = [points |-> Len(data), clusters |-> Len(TriangleCentres), iterations |-> KMIterations]
    /\ initMode \in InitModes
    /\ version = 0
    /\ centroids = <<>>
    /\ pendingInit = FALSE
    /\ status = "idle"
    /\ simPoints = <<>>
    /\ simCenters = <<>>
    /\ simIter = 0
    /\ usedCenters = <<>>
    /\ spreadStart = FALSE
    /\ HullIdle
    /\ OverlayIdle
    /\ FetchIdle
    /\ SOMIdle
    /\ LaterIdle

\* Centroid c lies inside the bounding box of triangle t.
InBoundingBox(c, t) ==
    /\ c.n > 0
    /\ \E lo, hi \in 1..Len(TriangleOffsets) :
          /\ Triangle(t)[lo].x * c.n <= c.x
          /\ c.x <= Triangle(t)[hi].x * c.n
    /\ \E lo, hi \in 1..Len(TriangleOffsets) :
          /\ Triangle(t)[lo].y * c.n <= c.y
          /\ c.y <= Triangle(t)[hi].y * c.n

\* Each of the centroids cs lies in the bounding box of a different triangle.
OnePerTriangle(cs) ==
    /\ Len(cs) = Len(TriangleCentres)
    /\ \E perm \in [1..Len(cs) -> 1..Len(TriangleCentres)] :
          /\ \A i, j \in 1..Len(cs) : i # j => perm[i] # perm[j]
          /\ \A i \in 1..Len(cs) : InBoundingBox(cs[i], perm[i])

\* initializeCentroids(data) under the mode, then step() on its outcome.
PlaceCentroids ==
    /\ status = "idle"
    /\ centroids = <<>>
    /\ \E newCentroids \in initializeCentroids(data, config.clusters, initMode) :
          /\ Step(data, newCentroids, 0, data, centroids, config)
          /\ spreadStart' = OnePerTriangle(newCentroids)
    /\ UNCHANGED <<config, initMode, version, pendingInit, hullVars, overlayVars, fetchVars, somVars, laterVars>>

ScenarioNext == PlaceCentroids \/ Frame

ScenarioSpec == ScenarioInit /\ [][ScenarioNext]_vars

\* The last step left every centroid where it was and no cluster empty.
FixedPoint ==
    /\ Stepped
    /\ status # "crashed"
    /\ usedCenters = simCenters
    /\ \A k \in 0..(Len(simCenters) - 1) : Members(k) # {}

\* C8 as stated: at a fixed point each centroid lies in the bounding box of
\* a different triangle, whatever the initial placement was.
FixedPointOnePerTriangle ==
    FixedPoint => OnePerTriangle(simCenters)

\* C8 amended: at a fixed point each centroid lies in the bounding box of a
\* different triangle, when the initial centroids lay in the bounding boxes
\* of three different triangles.
FixedPointFromSpreadPlacement ==
    (FixedPoint /\ spreadStart) => OnePerTriangle(simCenters)

\* C8 witness: K-Means++ placed one centroid in each triangle, and the steps
\* have reached a fixed point before the run committed.
SpreadPlacementConverged ==
    /\ FixedPoint
    /\ status = "running"
    /\ initMode = "kmeans++"
    /\ spreadStart
    /\ OnePerTriangle(simCenters)

\* ======================================================================
\* SOMPage: the self-organizing map page.
\*
\* A SOM number v (a coordinate, a rate, a radius, an exponential) is kept
\* in fixed point, as the integer part of v * Unit.
\* ======================================================================

Unit == 10 * 10 * 10

\* Most training iterations; the Iterations slider's range is scaled down
\* to the two largest counts.
MaxIterations == 3

IterationCounts == {MaxIterations - 1, MaxIterations}

\* The Grid Size slider's range, scaled down to one position.
GridSizes == {1}

\* The Learning Rate slider's range, cut to 0.1 and 0.5.
LearningRates == {Unit \div 10, Unit \div 2}

\* The Neighborhood Radius slider's range, cut to 1.0.
Sigmas == {Unit}

\* The indices of fixedData, scaled down.
DataIndices == 1..2

\* The terms of the exponential series of x from term number n on.
RECURSIVE ExpSeries(_, _, _)
ExpSeries(x, n, term) ==
    IF term = 0 THEN 0 ELSE term + ExpSeries(x, n + 1, (term * x) \div (Unit * n))

\* Math.exp(x) for x >= 0.
RECURSIVE ExpPos(_)
ExpPos(x) ==
    IF x > Unit
    THEN LET h == ExpPos(x \div 2) IN (h * h) \div Unit
    ELSE ExpSeries(x, 1, Unit)

\* Math.exp(-x) for x >= 0; below 1 / Unit it is 0.
ExpNeg(x) == IF x >= 7 * Unit THEN 0 ELSE (Unit * Unit) \div ExpPos(x)

\* Math.cos(f * 2 * Math.PI) and Math.sin(f * 2 * Math.PI) for f = 0 and f = 1/2.
CosTurn(f) == IF 2 * f[1] = f[2] THEN -Unit ELSE Unit

SinTurn(f) == 0

\* 0.6 + Math.random() * 0.2
Radius(f) == (6 * Unit) \div 10 + (f[1] * 2 * Unit) \div (10 * f[2])

\* The points fixedData may hold.
RingPoints ==
    {[x |-> (CosTurn(f) * Radius(g)) \div Unit, y |-> (SinTurn(f) * Radius(g)) \div Unit] :
        f \in RandomFractions, g \in RandomFractions}

\* Math.random() * 2 - 1
RandomWeights == {(2 * f[1] * Unit) \div f[2] - Unit : f \in RandomFractions}

\* The outcomes of the grid's initialisation.
InitialGrids(gridSize) ==
    {[k \in 1..(gridSize * gridSize) |->
         [x |-> w[k][1], y |-> w[k][2], i |-> (k - 1) \div gridSize, j |-> (k - 1) % gridSize]] :
        w \in [1..(gridSize * gridSize) -> RandomWeights \X RandomWeights]}

\* Math.hypot(dx, dy) squared; distances are compared by their squares.
HypotSquared(dx, dy) == dx * dx + dy * dy

\* A mutant of BMUFrom: minDist is not updated, every node replaces the last.
RECURSIVE BMUFromStaleMin(_, _, _, _, _)
BMUFromStaleMin(grid, point, k, bmuIndex, minDist) ==
    IF k >= Len(grid) THEN bmuIndex
    ELSE BMUFromStaleMin(grid, point, k + 1, k, minDist)

\* The search for the best matching unit from node k on; minDist < 0 is Infinity.
RECURSIVE BMUFrom(_, _, _, _, _)
BMUFrom(grid, point, k, bmuIndex, minDist) ==
    IF k >= Len(grid) THEN bmuIndex
    ELSE LET node == grid[k + 1]
             dist == HypotSquared(point.x - node.x, point.y - node.y)
         IN IF minDist < 0 \/ dist < minDist
            THEN BMUFrom(grid, point, k + 1, k, dist)
            ELSE BMUFrom(grid, point, k + 1, bmuIndex, minDist)

\* Math.exp(-iter / iterations)
Decay(iter, iterations) == ExpNeg((iter * Unit) \div iterations)

\* (gridDist ** 2) / (2 * sigmaDecay ** 2), what Math.exp is given, negated.
InfluenceExponent(node, lastBMU, sigmaDecay) ==
    LET gridDist2 == HypotSquared(node.i - lastBMU.i, node.j - lastBMU.j)
    IN (((gridDist2 * Unit * Unit) \div sigmaDecay) * (Unit \div 2)) \div sigmaDecay

\* Math.exp(-(gridDist ** 2) / (2 * sigmaDecay ** 2))
Influence(node, lastBMU, sigmaDecay) ==
    ExpNeg(InfluenceExponent(node, lastBMU, sigmaDecay))

\* One training iteration on the sampled point.
TrainStep(grid, point, iter, prm) ==
    LET lastBMU == grid[BMUFrom(grid, point, 0, 0, -1) + 1]
        lrDecay == (prm.learningRate * Decay(iter, prm.iterations)) \div Unit
        sigmaDecay == (prm.sigma * Decay(iter, prm.iterations)) \div Unit
    IN [k \in 1..Len(grid) |->
           LET node == grid[k]
               gain == (lrDecay * Influence(node, lastBMU, sigmaDecay)) \div Unit
           IN [node EXCEPT !.x = node.x + (gain * (point.x - node.x)) \div Unit,
                           !.y = node.y + (gain * (point.y - node.y)) \div Unit]]

\* The outcomes of the training loop from iteration iter on, one per draw
\* of the sampled points.
RECURSIVE TrainFrom(_, _, _, _, _)
TrainFrom(grid, iter, effectiveIterations, prm, dataSet) ==
    IF iter >= effectiveIterations THEN {grid}
    ELSE UNION {TrainFrom(TrainStep(grid, dataSet[(f[1] * Len(dataSet)) \div f[2] + 1], iter, prm),
                          iter + 1, effectiveIterations, prm, dataSet) : f \in RandomFractions}

Min(a, b) == IF a < b THEN a ELSE b

\* The grids renderSOM(ctx, width, height, currentParams, frame) may draw.
renderSOM(currentParams, frame, dataSet) ==
    UNION {TrainFrom(grid, 0, Min(frame, currentParams.iterations), currentParams, dataSet) :
              grid \in InitialGrids(currentParams.gridSize)}

\* The page after its first render and effects.
SOMInit ==
    /\ params = [gridSize |-> CHOOSE g \in GridSizes : TRUE, learningRate |-> Unit \div 10,
                 iterations |-> MaxIterations, sigma |-> Unit]
    /\ currentFrame = 0
    /\ isAnimating = FALSE
    /\ framePending = FALSE
    /\ fixedData \in [DataIndices -> RingPoints]
    /\ drawnGrid \in renderSOM(params, currentFrame, fixedData)
    /\ HullIdle
    /\ OverlayIdle
    /\ FetchIdle
    /\ KMIdle
    /\ LaterIdle

\* The effects after a render with params prm, frame and animating, when
\* the states before it were the unprimed ones: the drawing effect on a
\* change of params or currentFrame, the animation effect (cleanup, then
\* body) on a change of isAnimating, currentFrame or params.iterations.
SOMEffects(prm, frame, animating, requested) ==
    /\ IF prm # params \/ frame # currentFrame
       THEN drawnGrid' \in renderSOM(prm, frame, fixedData)
       ELSE drawnGrid' = drawnGrid
    /\ IF animating # isAnimating \/ frame # currentFrame \/ prm.iterations # params.iterations
       THEN framePending' = (animating /\ frame < prm.iterations)
       ELSE framePending' = requested

\* The requested animation frame, more than frameInterval after the last.
animate ==
    /\ framePending
    /\ LET next == currentFrame + 1
       IN IF next <= params.iterations
          THEN /\ currentFrame' = next
               /\ isAnimating' = isAnimating
               /\ SOMEffects(params, next, isAnimating, TRUE)
          ELSE /\ currentFrame' = params.iterations
               /\ isAnimating' = FALSE
               /\ SOMEffects(params, params.iterations, FALSE, FALSE)
    /\ UNCHANGED <<params, fixedData, hullVars, overlayVars, fetchVars, kmVars, laterVars>>

handleAnimateToggle ==
    /\ IF currentFrame >= params.iterations
       THEN /\ currentFrame' = 0
            /\ isAnimating' = TRUE
       ELSE /\ currentFrame' = currentFrame
            /\ isAnimating' = ~isAnimating
    /\ SOMEffects(params, currentFrame', isAnimating', framePending)
    /\ UNCHANGED <<params, fixedData, hullVars, overlayVars, fetchVars, kmVars, laterVars>>

\* The frame slider's onChange.
MoveFrameSlider(value) ==
    /\ value # currentFrame
    /\ isAnimating' = FALSE
    /\ currentFrame' = value
    /\ SOMEffects(params, value, FALSE, framePending)
    /\ UNCHANGED <<params, fixedData, hullVars, overlayVars, fetchVars, kmVars, laterVars>>

ParamRange(name) ==
    CASE name = "gridSize" -> GridSizes
      [] name = "learningRate" -> LearningRates
      [] name = "iterations" -> IterationCounts
      [] name = "sigma" -> Sigmas

\* A parameter slider's onChange.
ChangeParam(name, value) ==
    /\ value # params[name]
    /\ params' = [params EXCEPT ![name] = value]
    /\ SOMEffects(params', currentFrame, isAnimating, framePending)
    /\ UNCHANGED <<currentFrame, isAnimating, fixedData, hullVars, overlayVars, fetchVars, kmVars, laterVars>>

SOMNext ==
    \/ animate
    \/ handleAnimateToggle
    \/ \E value \in 0..params.iterations : MoveFrameSlider(value)
    \/ \E name \in {"gridSize", "learningRate", "iterations", "sigma"} :
          \E value \in ParamRange(name) : ChangeParam(name, value)

SOMSpec == SOMInit /\ [][SOMNext]_vars

\* C10: whenever the page goes from frame f-1 to frame f (1 <= f <=
\* iterations, same params), the grid drawn for frame f is the grid drawn
\* for frame f-1 carried forward by one training iteration, iteration f-1,
\* on some point of the data set.
FrameContinuesPreviousFrame ==
    [][(/\ currentFrame' = currentFrame + 1
        /\ currentFrame' <= params.iterations
        /\ params' = params)
       => \E p \in DOMAIN fixedData :
             drawnGrid' = TrainStep(drawnGrid, fixedData[p], currentFrame, params)]_vars

\* C18: in every reachable state of the SOM page (animation ticks, Start/Pause
\* toggles, frame-slider moves, changes of the Iterations slider)
\* 0 <= currentFrame <= params.iterations.
FrameWithinIterations ==
    0 <= currentFrame /\ currentFrame <= params.iterations

\* C19: when the running animation, started below params.iterations and left
\* alone, brings currentFrame to params.iterations, the animation is stopped:
\* isAnimating is false then, or a requested frame is still to come that
\* stops it.
AnimationStopsAtLastFrame ==
    [][(/\ isAnimating
        /\ framePending
        /\ params' = params
        /\ currentFrame < params.iterations
        /\ currentFrame' = params.iterations)
       => (~isAnimating' \/ framePending')]_vars

\* ----------------------------------------------------------------------
\* renderSOM's training loop (lines 123-173), one iteration at a time, on a
\* grid of TrainGridSize x TrainGridSize nodes.
\* ----------------------------------------------------------------------

\* The Grid Size of the loop under study, scaled down.
TrainGridSizes == {2}

\* renderSOM is called: the grid is initialised, no iteration has run.
TrainInit ==
    /\ params \in [gridSize : TrainGridSizes, learningRate : LearningRates,
                    iterations : {MaxIterations}, sigma : Sigmas]
    /\ currentFrame = params.iterations
    /\ isAnimating = FALSE
    /\ framePending = FALSE
    /\ fixedData \in [DataIndices -> RingPoints]
    /\ drawnGrid = <<>>
    /\ loopGrid \in InitialGrids(params.gridSize)
    /\ loopIter = 0
    /\ lastBMUIndex = -1
    /\ lastBMUInputPoint = <<>>
    /\ searchedGrid = <<>>
    /\ HullIdle
    /\ OverlayIdle
    /\ FetchIdle
    /\ KMIdle
    /\ InflIdle
    /\ error = NoError
    /\ AnimIdle
    /\ KnnIdle
    /\ PlusIdle

\* One pass of the for loop over iter: sample, search, update.
TrainIteration ==
    /\ drawnGrid = <<>>
    /\ loopIter < Min(currentFrame, params.iterations)
    /\ \E f \in RandomFractions :
          LET point == fixedData[(f[1] * Len(fixedData)) \div f[2] + 1]
          IN /\ lastBMUIndex' = BMUFrom(loopGrid, point, 0, 0, -1)
             /\ lastBMUInputPoint' = point
             /\ loopGrid' = TrainStep(loopGrid, point, loopIter, params)
    /\ searchedGrid' = loopGrid
    /\ loopIter' = loopIter + 1
    /\ UNCHANGED <<somVars, hullVars, overlayVars, fetchVars, kmVars, inflVars, error, animVars, knnVars, ppVars>>

\* The loop has ended: the drawing section draws the grid.
DrawTrained ==
    /\ drawnGrid = <<>>
    /\ loopIter >= Min(currentFrame, params.iterations)
    /\ drawnGrid' = loopGrid
    /\ UNCHANGED <<params, currentFrame, isAnimating, framePending, fixedData,
                   trainVars, hullVars, overlayVars, fetchVars, kmVars, inflVars, error, animVars, knnVars, ppVars>>

TrainNext == TrainIteration \/ DrawTrained

TrainSpec == TrainInit /\ [][TrainNext]_vars

\* The squared distance of the last sampled point to node k of the grid the
\* last search ran on.
SearchedDistance(k) ==
    HypotSquared(lastBMUInputPoint.x - searchedGrid[k + 1].x,
                 lastBMUInputPoint.y - searchedGrid[k + 1].y)

\* C11: in every training iteration the node chosen as BMU is one of the
\* gridSize * gridSize nodes and no node of the grid is nearer to the
\* sampled input point than it.
BMUIsNearest ==
    lastBMUIndex # -1 =>
        /\ Len(searchedGrid) = params.gridSize * params.gridSize
        /\ lastBMUIndex \in 0..(Len(searchedGrid) - 1)
        /\ \A k \in 0..(Len(searchedGrid) - 1) :
              SearchedDistance(lastBMUIndex) <= SearchedDistance(k)

\* C11 witness: after earlier iterations had moved the nodes, an iteration
\* chose a node other than the first and the last one, strictly nearer than
\* both of them.
BMUInsideGrid ==
    /\ loopIter >= 2
    /\ lastBMUIndex \in 1..(Len(searchedGrid) - 2)
    /\ SearchedDistance(lastBMUIndex) < SearchedDistance(0)
    /\ SearchedDistance(lastBMUIndex) < SearchedDistance(Len(searchedGrid) - 1)

\* ----------------------------------------------------------------------
\* The neighbourhood influence (lines 160-168) over the sliders' ranges.
\*
\* Math.exp(-x) is a double: it is 0 once x is past ExpZeroRange, and a
\* normal double, of full precision, up to ExpNormalRange. Its value is
\* kept as x itself, the larger x the smaller the value.
\* ----------------------------------------------------------------------

\* Math.exp(-x) is a normal double for x up to here (-Math.log(Number.MIN_VALUE * 2 ** 52)).
ExpNormalRange == 708

\* Math.exp(-x) is 0 for x beyond here (-Math.log(Number.MIN_VALUE / 2)).
ExpZeroRange == 745

\* The Grid Size, Neighborhood Radius and Iterations sliders' ranges: both
\* ends and the initial value.
InflGridSizes == {5, 10, 20}

InflSigmas == {Unit \div 2, Unit, 3 * Unit}

InflIterations == {10, 100, 200}

\* The rows and columns tried for a node: both ends, the middle, one more.
InflIndices(gridSize) == {0, 1, gridSize \div 2, gridSize - 1}

\* Math.exp(-x) as a double, x in fixed point.
ExpDouble(x) == [zero |-> x > ExpZeroRange * Unit, neglog |-> x]

\* a > b for two results of Math.exp.
DoubleGreater(a, b) == ~a.zero /\ (b.zero \/ a.neglog < b.neglog)

\* A mutant of influenceOf: the distance counts the rows only.
influenceRowsOnly(node, lastBMU, sigmaDecay) ==
    ExpDouble(InfluenceExponent([node EXCEPT !.j = lastBMU.j], lastBMU, sigmaDecay))

\* const influence = Math.exp(-(gridDist ** 2) / (2 * sigmaDecay ** 2)), as a double
influenceOf(node, lastBMU, sigmaDecay) ==
    ExpDouble(InfluenceExponent(node, lastBMU, sigmaDecay))

InflInit ==
    /\ \E g \in InflGridSizes, n \in InflIterations :
          inflInput \in [gridSize : {g}, sigma : InflSigmas, iterations : {n}, iter : {0, n - 1},
                         lastBMU : [i : {0, g \div 2}, j : {0, g \div 2}],
                         nodeA : [i : InflIndices(g), j : InflIndices(g)],
                         nodeB : [i : InflIndices(g), j : InflIndices(g)]]
    /\ inflOutput = <<>>
    /\ HullIdle
    /\ OverlayIdle
    /\ FetchIdle
    /\ KMIdle
    /\ SOMIdle
    /\ TrainIdle
    /\ error = NoError
    /\ AnimIdle
    /\ KnnIdle
    /\ PlusIdle

\* The update loop's body for the two nodes, in iteration iter.
ComputeInfluences ==
    /\ inflOutput = <<>>
    /\ LET sigmaDecay == (inflInput.sigma * Decay(inflInput.iter, inflInput.iterations)) \div Unit
       IN inflOutput' = [a |-> influenceOf(inflInput.nodeA, inflInput.lastBMU, sigmaDecay),
                         b |-> influenceOf(inflInput.nodeB, inflInput.lastBMU, sigmaDecay)]
    /\ UNCHANGED <<inflInput, hullVars, overlayVars, fetchVars, kmVars, somVars, trainVars, error, animVars, knnVars, ppVars>>

InflNext == ComputeInfluences

InflSpec == InflInit /\ [][InflNext]_vars

\* The squared lattice distance of a node of the input to the BMU.
LatticeDistance2(node) ==
    HypotSquared(node.i - inflInput.lastBMU.i, node.j - inflInput.lastBMU.j)

\* C12 as stated: of two nodes, the one at the smaller lattice distance from
\* the BMU has the strictly greater influence.
InfluenceStrictlyDecreasing ==
    (inflOutput # <<>> /\ LatticeDistance2(inflInput.nodeA) < LatticeDistance2(inflInput.nodeB)) =>
        DoubleGreater(inflOutput.a, inflOutput.b)

\* C12 amended: of two nodes, the one at the smaller lattice distance never
\* has the smaller influence, and has the strictly greater one whenever the
\* farther node's exponent d^2 / (2 sigma^2) is within the normal range of
\* Math.exp.
InfluenceDecreasingInRange ==
    (inflOutput # <<>> /\ LatticeDistance2(inflInput.nodeA) < LatticeDistance2(inflInput.nodeB)) =>
        /\ ~DoubleGreater(inflOutput.b, inflOutput.a)
        /\ inflOutput.b.neglog <= ExpNormalRange * Unit => DoubleGreater(inflOutput.a, inflOutput.b)

\* C12 witness: on the largest grid, in the last iteration, the nearer of
\* two nodes off the BMU has the greater influence, the farther one's being
\* small but still a normal double.
InfluenceDecreasingWitness ==
    /\ inflOutput # <<>>
    /\ inflInput.iter > 0
    /\ 0 < LatticeDistance2(inflInput.nodeA)
    /\ LatticeDistance2(inflInput.nodeA) < LatticeDistance2(inflInput.nodeB)
    /\ inflOutput.b.neglog > 100 * Unit
    /\ inflOutput.b.neglog <= ExpNormalRange * Unit
    /\ DoubleGreater(inflOutput.a, inflOutput.b)

\* ======================================================================
\* LogisticRegressionPage (part_001): fetchData on mount, fetchTrainHistory
\* once there is data and whenever learningRate or iterations change; both
\* set the state error when they fail.
\* ======================================================================

\* The Learning Rate slider in hundredths and the Iterations slider, cut
\* to two positions each.
LogisticControls == [learningRate |-> {10, 11}, iterations |-> {100, 110}]

LogisticDefaults == [learningRate |-> 10, iterations |-> 100]

\* A 2xx response lacking its arrays is not modelled for this page.
LogisticOutcomes == {"ok", "nonok", "rejected"}

\* The request fetchData sends.
DataRequest(id) == [id |-> id, body |-> [kind |-> "data"]]

\* The request fetchTrainHistory sends, of the render with params prm and
\* the data of generation gen.
HistoryRequest(id, prm, gen) ==
    [id |-> id,
     body |-> [kind |-> "history", data |-> gen,
               learningRate |-> prm.learningRate, iterations |-> prm.iterations]]

\* What the catch block sets: err.message || "Failed to fetch ...".
ErrorMessage(r, outcome) ==
    IF outcome = "nonok" THEN "HTTP error! status"
    ELSE IF r.body.kind = "data" THEN "Failed to fetch data." ELSE "Failed to fetch training history."

\* The page after its first render and effects: fetchData is under way.
LogisticInit ==
    /\ page = "logistic"
    /\ pageParams = LogisticDefaults
    /\ dataGen = 0
    /\ inflight = {DataRequest(1)}
    /\ nextReq = 2
    /\ shown = [kind |-> "empty"]
    /\ lastArrival = <<>>
    /\ newestOk = 0
    /\ staleSeen = {}
    /\ error = NoError
    /\ HullIdle
    /\ OverlayIdle
    /\ KMIdle
    /\ SOMIdle
    /\ TrainIdle
    /\ InflIdle
    /\ AnimIdle
    /\ KnnIdle
    /\ PlusIdle

\* A slider's onChange: fetchTrainHistory is a new function, and the
\* effect depending on it calls it when there is data.
LogisticChangeParam ==
    \E f \in DOMAIN LogisticControls : \E v \in LogisticControls[f] :
        /\ v # pageParams[f]
        /\ pageParams' = [pageParams EXCEPT ![f] = v]
        /\ IF dataGen > 0
           THEN /\ nextReq <= MaxRequests
                /\ inflight' = inflight \cup {HistoryRequest(nextReq, pageParams', dataGen)}
                /\ nextReq' = nextReq + 1
                /\ error' = NoError
           ELSE UNCHANGED <<inflight, nextReq, error>>
        /\ UNCHANGED <<page, dataGen, shown, lastArrival, newestOk, staleSeen,
                       hullVars, overlayVars, kmVars, somVars, trainVars, inflVars, animVars, knnVars, ppVars>>

\* fetchData's or fetchTrainHistory's fetch settles.
LogisticRespond ==
    \E r \in inflight : \E outcome \in LogisticOutcomes :
        /\ lastArrival' = [req |-> r.id, outcome |-> outcome]
        /\ newestOk' = IF outcome = "ok" /\ r.id > newestOk THEN r.id ELSE newestOk
        /\ IF outcome # "ok"
           THEN /\ error' = ErrorMessage(r, outcome)
                /\ inflight' = inflight \ {r}
                /\ UNCHANGED <<dataGen, nextReq, shown>>
           ELSE IF r.body.kind = "data"
           THEN /\ nextReq <= MaxRequests
                /\ dataGen' = dataGen + 1
                /\ inflight' = (inflight \ {r}) \cup {HistoryRequest(nextReq, pageParams, dataGen')}
                /\ nextReq' = nextReq + 1
                /\ error' = NoError
                /\ shown' = shown
           ELSE /\ shown' = ResultOf(r)
                /\ inflight' = inflight \ {r}
                /\ UNCHANGED <<dataGen, nextReq, error>>
        /\ UNCHANGED <<page, pageParams, staleSeen,
                       hullVars, overlayVars, kmVars, somVars, trainVars, inflVars, animVars, knnVars, ppVars>>

LogisticNext == LogisticChangeParam \/ LogisticRespond

\* The pages that call the backend: one of the three above, or this one.
BackendInit == FetchInit \/ LogisticInit

BackendNext ==
    \/ page \in Pages /\ ChangeControl
    \/ page \in Pages /\ ResetControls
    \/ page \in Pages /\ Respond
    \/ page \in Pages /\ Navigate
    \/ page = "logistic" /\ LogisticChangeParam
    \/ page = "logistic" /\ LogisticRespond

BackendSpec == BackendInit /\ [][BackendNext]_vars

\* This step is the arrival of a rejected or non-OK fetch.
FailedFetchArrives ==
    /\ page' = page
    /\ inflight' # inflight
    /\ nextReq' = nextReq
    /\ lastArrival' # <<>>
    /\ lastArrival'.outcome \in {"rejected", "nonok"}

\* The result state holds nothing to draw.
EmptyVisualization(result) == result.kind \in {"empty", "null", "undefined"}

AnimKinds == {"perceptron", "som", "canvas"}

MaxFrameIds == 6

FrameIds == 1..MaxFrameIds

\* config.iterations of the perceptron, scaled with the model's iteration bound.
TrainingIterations == MaxIterations - 1

\* The Iterations slider's range, scaled down to the two largest counts.
TrainingBudgets == {TrainingIterations - 1, TrainingIterations}

\* Who writes networkState when the step of a loop calls setNetworkState.
WrittenBy(loop, cleaned) == IF loop \in cleaned THEN "stale" ELSE "live"

\* cancelAnimationFrame(id): the callback with that id leaves the queue; the id
\* of a callback that already ran, or 0, cancels nothing.
CancelFrame(queue, id) == {f \in queue : f.id # id}

\* requestAnimationFrame(callback): the callback of a loop joins the queue.
RequestFrame(queue, id, loop) == queue \cup {[id |-> id, loop |-> loop]}

\* The loops cleaned up so far, after the cleanup of the effect in place.
CleanedAfter == IF animLive = 0 THEN animCleaned ELSE animCleaned \cup {animLive}

AnimInit ==
    /\ animKind \in AnimKinds
    /\ animMounted = TRUE
    /\ animInit = FALSE
    /\ animCleaned = {}
    /\ animAwait = {}
    /\ animIters = [l \in FrameIds |-> 0]
    /\ animCount = 0
    /\ IF animKind = "perceptron"
       THEN \* /initialize answered: the training effect requested its first step
            /\ animOn = TRUE
            /\ animRef = 1
            /\ animQueue = {[id |-> 1, loop |-> 1]}
            /\ animLive = 1
            /\ animNextId = 2
            /\ animIterations \in TrainingBudgets
       ELSE /\ animOn = FALSE
            /\ animRef = 0
            /\ animQueue = {}
            /\ animLive = 0
            /\ animNextId = 1
            /\ animIterations = 0
    /\ animSent = [l \in FrameIds |-> 0]
    /\ animNet = "init"
    /\ HullIdle
    /\ OverlayIdle
    /\ FetchIdle
    /\ KMIdle
    /\ SOMIdle
    /\ TrainIdle
    /\ InflIdle
    /\ error = NoError
    /\ KnnIdle
    /\ PlusIdle

AnimOthersUnchanged ==
    UNCHANGED <<animKind, hullVars, overlayVars, fetchVars, kmVars, somVars,
                trainVars, inflVars, error, knnVars, ppVars>>

\* ---- PerceptronVisualizer ----

\* A slider or the select calls setConfig. The training effect is cleaned up and
\* runs again; the initialize effect calls initializeNetwork, which sets
\* isNetworkInitialized to false, so the training effect is cleaned up once more
\* and returns early: whatever it requested in between is cancelled. The
\* slider moved is another one than Iterations.
PerceptronChangeConfig ==
    /\ animKind = "perceptron"
    /\ animMounted
    /\ ~animInit
    /\ animQueue' = CancelFrame(animQueue, animRef)
    /\ animCleaned' = CleanedAfter
    /\ animLive' = 0
    /\ animOn' = FALSE
    /\ animInit' = TRUE
    /\ UNCHANGED <<animMounted, animRef, animAwait, animIters, animCount, animNextId,
                   percVars>>
    /\ AnimOthersUnchanged

\* The fetch of initializeNetwork settles. On success it writes networkState,
\* isNetworkInitialized becomes true and the training effect requests the first
\* step of a new loop.
PerceptronInitialized(ok) ==
    /\ animKind = "perceptron"
    /\ animInit
    /\ animInit' = FALSE
    /\ IF ok /\ animMounted
       THEN /\ animNextId <= MaxFrameIds
            /\ animNet' = "init"
            /\ animOn' = TRUE
            /\ animQueue' = RequestFrame(CancelFrame(animQueue, animRef), animNextId, animNextId)
            /\ animRef' = animNextId
            /\ animLive' = animNextId
            /\ animNextId' = animNextId + 1
       ELSE UNCHANGED <<animOn, animQueue, animRef, animLive, animNextId, animNet>>
    /\ UNCHANGED <<animMounted, animCleaned, animAwait, animIters, animCount,
                   animIterations, animSent>>
    /\ AnimOthersUnchanged

\* The browser runs step(): it returns at once when currentIterations reached
\* config.iterations, else it sends /train and awaits the answer.
PerceptronStep(f) ==
    /\ animKind = "perceptron"
    /\ f \in animQueue
    /\ animQueue' = animQueue \ {f}
    /\ IF animIters[f.loop] >= animIterations
       THEN UNCHANGED <<animAwait, animSent>>
       ELSE /\ animAwait' = animAwait \cup {f.loop}
            /\ animSent' = [animSent EXCEPT ![f.loop] = @ + 1]
    /\ UNCHANGED <<animMounted, animOn, animInit, animRef, animLive, animCleaned,
                   animIters, animCount, animNextId, animIterations, animNet>>
    /\ AnimOthersUnchanged

\* A changed MoreIterations: the step always asks for another frame.
MoreIterationsAlways(currentIterations, iterations) == TRUE

\* currentIterations < config.iterations, the test before the next frame.
MoreIterations(currentIterations, iterations) == currentIterations < iterations

\* animRef.current = requestAnimationFrame(step) of a running step.
StepRequestsNext(loop) ==
    /\ animNextId <= MaxFrameIds
    /\ animQueue' = RequestFrame(animQueue, animNextId, loop)
    /\ animRef' = animNextId
    /\ animNextId' = animNextId + 1

\* The /train fetch of a step settles. On success the step writes
\* networkState (a mounted component takes the write), counts the iteration
\* and, when iterations remain, requests the next callback and keeps its id in
\* animRef. On failure it sets isNetworkInitialized to false, which cleans the
\* training effect up.
PerceptronTrained(loop, ok) ==
    /\ animKind = "perceptron"
    /\ loop \in animAwait
    /\ animAwait' = animAwait \ {loop}
    /\ IF ok
       THEN /\ animIters' = [animIters EXCEPT ![loop] = @ + 1]
            /\ animNet' = IF animMounted THEN WrittenBy(loop, animCleaned) ELSE animNet
            /\ IF MoreIterations(animIters'[loop], animIterations)
               THEN StepRequestsNext(loop)
               ELSE UNCHANGED <<animQueue, animRef, animNextId>>
            /\ UNCHANGED <<animOn, animLive, animCleaned>>
       ELSE /\ IF animMounted /\ animOn
               THEN /\ animOn' = FALSE
                    /\ animQueue' = CancelFrame(animQueue, animRef)
                    /\ animCleaned' = CleanedAfter
                    /\ animLive' = 0
               ELSE UNCHANGED <<animOn, animQueue, animCleaned, animLive>>
            /\ UNCHANGED <<animIters, animRef, animNextId, animNet>>
    /\ UNCHANGED <<animMounted, animInit, animCount, animIterations, animSent>>
    /\ AnimOthersUnchanged

\* ---- SOMPage ----

\* The animation effect of SOMPage runs again after isAnimating or currentFrame
\* changed: the cleanup cancels the callback in animationFrameRef; the body
\* requests the first callback of a new loop while frames remain, and clears
\* the ref when the animation is off and the ref is set.
SomEffect(queue, ref, on, frame, nextId) ==
    /\ animCleaned' = CleanedAfter
    /\ IF on /\ frame < MaxIterations
       THEN /\ nextId <= MaxFrameIds
            /\ animQueue' = RequestFrame(CancelFrame(queue, ref), nextId, nextId)
            /\ animRef' = nextId
            /\ animLive' = nextId
            /\ animNextId' = nextId + 1
       ELSE /\ animQueue' = CancelFrame(queue, ref)
            /\ animRef' = IF ~on THEN 0 ELSE ref
            /\ animLive' = 0
            /\ animNextId' = nextId

\* handleAnimateToggle of SOMPage.
SomToggle ==
    /\ animKind = "som"
    /\ animMounted
    /\ IF animCount >= MaxIterations
       THEN animCount' = 0 /\ animOn' = TRUE
       ELSE animCount' = animCount /\ animOn' = ~animOn
    /\ IF animCount' = animCount /\ animOn' = animOn
       THEN UNCHANGED <<animQueue, animRef, animLive, animCleaned, animNextId>>
       ELSE SomEffect(animQueue, animRef, animOn', animCount', animNextId)
    /\ UNCHANGED <<animMounted, animInit, animAwait, animIters, percVars>>
    /\ AnimOthersUnchanged

\* The iteration slider of SOMPage: the animation pauses, the frame is set.
SomMoveSlider(value) ==
    /\ animKind = "som"
    /\ animMounted
    /\ animOn' = FALSE
    /\ animCount' = value
    /\ IF animCount' = animCount /\ animOn' = animOn
       THEN UNCHANGED <<animQueue, animRef, animLive, animCleaned, animNextId>>
       ELSE SomEffect(animQueue, animRef, FALSE, value, animNextId)
    /\ UNCHANGED <<animMounted, animInit, animAwait, animIters, percVars>>
    /\ AnimOthersUnchanged

\* The browser runs animate() of SOMPage: the updater of setCurrentFrame
\* requests the next callback, keeps its id in the ref and returns the next
\* frame, or stops the animation at the cap; the changed state runs the effect
\* again. (performance.now() exceeds frameInterval, so the elapsed-time test of
\* a fresh closure passes.)
SomAnimate(f) ==
    /\ animKind = "som"
    /\ animMounted
    /\ f \in animQueue
    /\ IF animCount + 1 <= MaxIterations
       THEN /\ animNextId <= MaxFrameIds
            /\ animCount' = animCount + 1
            /\ animOn' = animOn
            /\ SomEffect(RequestFrame(animQueue \ {f}, animNextId, f.loop), animNextId,
                         animOn, animCount + 1, animNextId + 1)
       ELSE /\ animCount' = MaxIterations
            /\ animOn' = FALSE
            /\ SomEffect(animQueue \ {f}, animRef, FALSE, MaxIterations, animNextId)
    /\ UNCHANGED <<animMounted, animInit, animAwait, animIters, percVars>>
    /\ AnimOthersUnchanged

\* ---- VisualizationCanvas ----

\* handleAnimateToggle of VisualizationCanvas (no onAnimateToggle given): the
\* animation effect is cleaned up and runs again, requesting the first callback
\* of a new loop when isAnimating became true.
CanvasToggle ==
    /\ animKind = "canvas"
    /\ animMounted
    /\ animOn' = ~animOn
    /\ animCleaned' = CleanedAfter
    /\ IF animOn'
       THEN /\ animNextId <= MaxFrameIds
            /\ animQueue' = RequestFrame(CancelFrame(animQueue, animRef), animNextId, animNextId)
            /\ animRef' = animNextId
            /\ animLive' = animNextId
            /\ animNextId' = animNextId + 1
       ELSE /\ animQueue' = CancelFrame(animQueue, animRef)
            /\ animLive' = 0
            /\ UNCHANGED <<animRef, animNextId>>
    /\ UNCHANGED <<animMounted, animInit, animAwait, animIters, animCount, percVars>>
    /\ AnimOthersUnchanged

\* The browser runs animate() of VisualizationCanvas: internalFrame grows by
\* one and the next callback is requested; the new frame runs the draw effect
\* again, whose cleanup cancels the callback in animationRef.
CanvasAnimate(f) ==
    /\ animKind = "canvas"
    /\ animMounted
    /\ f \in animQueue
    /\ animNextId <= MaxFrameIds
    /\ animCount' = animCount + 1
    /\ animQueue' = CancelFrame(RequestFrame(animQueue \ {f}, animNextId, f.loop), animNextId)
    /\ animRef' = animNextId
    /\ animNextId' = animNextId + 1
    /\ UNCHANGED <<animMounted, animOn, animInit, animLive, animCleaned, animAwait, animIters, percVars>>
    /\ AnimOthersUnchanged

\* handleParamChange or handleReset of VisualizationCanvas: the new params run
\* the draw effect again, whose cleanup cancels the callback in animationRef.
CanvasRedraw ==
    /\ animKind = "canvas"
    /\ animMounted
    /\ animQueue' = CancelFrame(animQueue, animRef)
    /\ UNCHANGED <<animMounted, animOn, animInit, animRef, animLive, animCleaned, animAwait,
                   animIters, animCount, animNextId, percVars>>
    /\ AnimOthersUnchanged

\* ---- all three ----

\* The component unmounts: the cleanup of its effect cancels the callback whose
\* id the ref holds.
AnimUnmount ==
    /\ animKind \in AnimKinds
    /\ animMounted
    /\ animMounted' = FALSE
    /\ animQueue' = CancelFrame(animQueue, animRef)
    /\ animCleaned' = CleanedAfter
    /\ animLive' = 0
    /\ UNCHANGED <<animOn, animInit, animRef, animAwait, animIters, animCount, animNextId, percVars>>
    /\ AnimOthersUnchanged

AnimNext ==
    \/ PerceptronChangeConfig
    \/ \E ok \in BOOLEAN : PerceptronInitialized(ok)
    \/ \E f \in animQueue : PerceptronStep(f)
    \/ \E loop \in animAwait, ok \in BOOLEAN : PerceptronTrained(loop, ok)
    \/ SomToggle
    \/ \E value \in 0..MaxIterations : SomMoveSlider(value)
    \/ \E f \in animQueue : SomAnimate(f)
    \/ CanvasToggle
    \/ \E f \in animQueue : CanvasAnimate(f)
    \/ CanvasRedraw
    \/ AnimUnmount

AnimSpec == AnimInit /\ [][AnimNext]_vars

\* C15: after a component unmounts or its animation effect is cleaned up, no
\* requestAnimationFrame callback of that loop is pending, and none is
\* requested later by a step that was already in progress: every pending
\* callback belongs to a loop whose effect was not cleaned up.
NoCallbackOfCleanedLoop ==
    \A f \in animQueue : f.loop \notin animCleaned

SingleTrainingLoop ==
    animKind = "perceptron" =>
        /\ \A f \in animQueue : f.loop = animLive
        /\ animOn => animNet # "stale"

\* C25: with the internal animation of VisualizationCanvas toggled on, the
\* frame counter keeps increasing for as long as isAnimating stays true: after
\* an animation frame that increased it, the next frame is pending.
CanvasAnimationKeepsRunning ==
    [][(/\ animKind = "canvas"
        /\ animOn
        /\ animOn'
        /\ animMounted'
        /\ animCount' = animCount + 1)
       => animQueue' # {}]_vars

\* C15, for the two loops that keep every requested id in their ref: the claim
\* holds of SOMPage and of VisualizationCanvas.
NoCallbackOfCleanedLoopBesidesPerceptron ==
    animKind # "perceptron" => NoCallbackOfCleanedLoop

\* ---------------------------------------------------------------------------
\* KNNVisualizer: handleCanvasClick classifies the clicked point.
\* ---------------------------------------------------------------------------

\* config.points, scaled: enough points for two labels to tie behind a third.
KnnPoints == 5

\* config.classes: the default of the state config.
KnnClasses == 3

\* The largest config.k the model's slider reaches.
MaxK == 5

KnnLabels == 0..(KnnClasses - 1)

\* The data points lie on a line, one at each of 1..KnnPoints; the clicks fall
\* before and among them.
KnnClickXs == {0, 3}

NoPrediction == -1

NoPoint == <<>>

\* dist of handleCanvasClick: the squared distance of a data point to the click.
KnnDist(d, x, y) == (d.x - x) * (d.x - x) + (d.y - y) * (d.y - y)

\* data.map(d => ({...d, dist})).
WithDistances(points, x, y) ==
    [i \in DOMAIN points |->
        [x |-> points[i].x, y |-> points[i].y, label |-> points[i].label,
         dist |-> KnnDist(points[i], x, y)]]

\* One element put in its place in a list sorted by dist, behind its equals.
InsertByDist(sorted, d) ==
    LET before == {i \in DOMAIN sorted : sorted[i].dist <= d.dist}
        n == Cardinality(before)
    IN  SubSeq(sorted, 1, n) \o <<d>> \o SubSeq(sorted, n + 1, Len(sorted))

\* distances.sort((a, b) => a.dist - b.dist): Array.prototype.sort is stable.
RECURSIVE SortByDist(_)
SortByDist(list) ==
    IF list = <<>> THEN <<>>
    ELSE InsertByDist(SortByDist(SubSeq(list, 1, Len(list) - 1)), list[Len(list)])

\* distances.slice(0, config.k).
Slice(list, k) == SubSeq(list, 1, Min(k, Len(list)))

\* counts[label] of handleCanvasClick, 0 for a label without entry.
CountOf(topK, label) == Cardinality({i \in DOMAIN topK : topK[i].label = label})

\* Math.max(...Object.values(counts)).
MaxCount(topK) ==
    LET values == {CountOf(topK, topK[i].label) : i \in DOMAIN topK}
    IN  CHOOSE c \in values : \A other \in values : other <= c

\* tiedLabels: the labels whose count is maxCount.
TiedLabels(topK) ==
    IF topK = <<>> THEN {}
    ELSE {topK[i].label : i \in {j \in DOMAIN topK : CountOf(topK, topK[j].label) = MaxCount(topK)}}

\* A changed closestTied: the first of topK, whatever its label.
closestTiedIsNearest(topK) ==
    IF topK = <<>> THEN NoPrediction ELSE topK[1].label

\* closestTied?.label ?? null: topK.find(p => tiedLabels.includes(p.label)).
closestTied(topK) ==
    LET found == {i \in DOMAIN topK : topK[i].label \in TiedLabels(topK)}
    IN  IF found = {} THEN NoPrediction
        ELSE topK[CHOOSE i \in found : \A j \in found : i <= j].label

KnnInit ==
    /\ knnConfig \in [points : {KnnPoints}, classes : {KnnClasses}, k : 1..MaxK]
    /\ \E labels \in [1..KnnPoints -> KnnLabels] :
          knnData = [i \in 1..KnnPoints |-> [x |-> i, y |-> 0, label |-> labels[i]]]
    /\ testPoint = NoPoint
    /\ prediction = NoPrediction
    /\ neighbors = <<>>
    /\ HullIdle
    /\ OverlayIdle
    /\ FetchIdle
    /\ KMIdle
    /\ SOMIdle
    /\ TrainIdle
    /\ InflIdle
    /\ error = NoError
    /\ AnimIdle
    /\ PlusIdle

KnnOthersUnchanged ==
    UNCHANGED <<hullVars, overlayVars, fetchVars, kmVars, somVars, trainVars, inflVars,
                error, animVars, ppVars>>

\* handleCanvasClick at (x, y).
HandleCanvasClick(x, y) ==
    LET topK == Slice(SortByDist(WithDistances(knnData, x, y)), knnConfig.k)
    IN  /\ testPoint' = [x |-> x, y |-> y]
        /\ neighbors' = topK
        /\ prediction' = closestTied(topK)
        /\ UNCHANGED <<knnConfig, knnData>>
        /\ KnnOthersUnchanged

\* handleSliderChange("k", v): the data effect does not depend on config.k.
KnnChangeK(v) ==
    /\ v # knnConfig.k
    /\ knnConfig' = [knnConfig EXCEPT !.k = v]
    /\ UNCHANGED <<knnData, testPoint, prediction, neighbors>>
    /\ KnnOthersUnchanged

KnnNext ==
    \/ \E x \in KnnClickXs : HandleCanvasClick(x, 0)
    \/ \E v \in 1..MaxK : KnnChangeK(v)

KnnSpec == KnnInit /\ [][KnnNext]_vars

\* The neighbours whose label has the highest count among the neighbours.
TiedNeighbours ==
    {i \in DOMAIN neighbors :
        \A j \in DOMAIN neighbors :
            CountOf(neighbors, neighbors[j].label) <= CountOf(neighbors, neighbors[i].label)}

\* Several labels share the highest count among the neighbours.
LabelsTie == Cardinality({neighbors[i].label : i \in TiedNeighbours}) > 1

\* The neighbours are min(config.k, data.length) of the data points, each with
\* its squared distance to the test point, and no other data point is nearer.
NeighboursAreNearest ==
    /\ Len(neighbors) = Min(knnConfig.k, Len(knnData))
    /\ \A i \in DOMAIN neighbors :
          /\ neighbors[i].dist = KnnDist(neighbors[i], testPoint.x, testPoint.y)
          /\ Cardinality({j \in DOMAIN neighbors : neighbors[j] = neighbors[i]})
                <= Cardinality({j \in DOMAIN knnData :
                                   /\ knnData[j].x = neighbors[i].x
                                   /\ knnData[j].y = neighbors[i].y
                                   /\ knnData[j].label = neighbors[i].label})
    /\ LET far == CHOOSE d \in {neighbors[i].dist : i \in DOMAIN neighbors} :
                      \A i \in DOMAIN neighbors : neighbors[i].dist <= d
       IN  Cardinality({j \in DOMAIN knnData :
                           KnnDist(knnData[j], testPoint.x, testPoint.y) < far})
              = Cardinality({i \in DOMAIN neighbors : neighbors[i].dist < far})

\* The prediction is the label of a neighbour that is closest among the
\* neighbours whose label has the highest count.
PredictionIsClosestTied ==
    \E i \in TiedNeighbours :
        /\ neighbors[i].label = prediction
        /\ \A j \in TiedNeighbours : neighbors[i].dist <= neighbors[j].dist

TiePredictsNearestPoint ==
    (testPoint # NoPoint /\ LabelsTie) =>
        \E j \in DOMAIN knnData :
            /\ knnData[j].label = prediction
            /\ \A i \in DOMAIN knnData :
                  KnnDist(knnData[j], testPoint.x, testPoint.y)
                     <= KnnDist(knnData[i], testPoint.x, testPoint.y)

\* ---------------------------------------------------------------------------
\* initializeCentroids in "kmeans++" mode, one iteration of its while loop at
\* a time, on every small data set and every position of the clusters slider.
\* ---------------------------------------------------------------------------

\* Most points of a data set under study.
MaxPlusPoints == 3

\* The clusters slider's max.
MaxClusters == 6

PlusInit ==
    /\ \E n \in 1..MaxPlusPoints : ppPoints \in generateRandomPoints(n)
    /\ ppClusters \in 1..MaxClusters
    /\ ppCentroids = <<>>
    /\ ppIters = 0
    /\ ppDone = FALSE
    /\ HullIdle
    /\ OverlayIdle
    /\ FetchIdle
    /\ KMIdle
    /\ SOMIdle
    /\ TrainIdle
    /\ InflIdle
    /\ error = NoError
    /\ AnimIdle
    /\ KnnIdle

PlusOthersUnchanged ==
    UNCHANGED <<hullVars, overlayVars, fetchVars, kmVars, somVars, trainVars, inflVars,
                error, animVars, knnVars>>

\* const centroids = [points[Math.floor(Math.random() * points.length)]]
PlusDrawFirst(f) ==
    /\ ppCentroids = <<>>
    /\ ~ppDone
    /\ ppCentroids' = <<ppPoints[(f[1] * Len(ppPoints)) \div f[2] + 1]>>
    /\ UNCHANGED <<ppPoints, ppClusters, ppIters, ppDone>>
    /\ PlusOthersUnchanged

\* One iteration of while (centroids.length < config.clusters): the point at
\* which acc reaches r is pushed; when the for loop finds none, nothing is.
PlusIterate(f) ==
    /\ ppCentroids # <<>>
    /\ ~ppDone
    /\ Len(ppCentroids) < ppClusters
    /\ ppIters < MaxClusters
    /\ LET distances == [i \in 1..Len(ppPoints) |-> MinDistance(ppPoints[i], ppCentroids, 1)]
           picked == PickByWeight(distances, f)
       IN ppCentroids' = IF picked = 0 THEN ppCentroids ELSE Append(ppCentroids, ppPoints[picked])
    /\ ppIters' = ppIters + 1
    /\ UNCHANGED <<ppPoints, ppClusters, ppDone>>
    /\ PlusOthersUnchanged

\* return centroids
PlusReturn ==
    /\ ppCentroids # <<>>
    /\ ~ppDone
    /\ Len(ppCentroids) >= ppClusters
    /\ ppDone' = TRUE
    /\ UNCHANGED <<ppPoints, ppClusters, ppCentroids, ppIters>>
    /\ PlusOthersUnchanged

PlusNext ==
    \/ \E f \in RandomFractions : PlusDrawFirst(f)
    \/ \E f \in RandomFractions : PlusIterate(f)
    \/ PlusReturn

PlusSpec == PlusInit /\ [][PlusNext]_vars

\* C26: for every data set of at least one point and every cluster count K in
\* 1..6 the distance-weighted initialization terminates and returns exactly K
\* centroids, each one of the data points: every iteration of the while loop
\* adds a centroid, so the loop ends after K - 1 iterations, and what is
\* returned are K data points.
PlusPlusReturnsKDataPoints ==
    /\ ppCentroids # <<>> => ppIters = Len(ppCentroids) - 1
    /\ Len(ppCentroids) <= ppClusters
    /\ ppDone =>
          /\ Len(ppCentroids) = ppClusters
          /\ \A k \in 1..Len(ppCentroids) : \E i \in 1..Len(ppPoints) : ppCentroids[k] = ppPoints[i]

\* C26 witness: more centroids were asked for than there are points, and the
\* function returned.
ReturnedMoreThanPoints ==
    /\ ppDone
    /\ ppClusters = MaxClusters
    /\ Len(ppPoints) = 1
    /\ Len(ppCentroids) = MaxClusters

====
